---- MODULE Spec2Model ----
(***************************************************************************)
(* The scoring engine of the AI Resume Analyzer (src/utils/analyzer.py)    *)
(* as a state machine.  Texts are strings; every text function of the      *)
(* engine is an operator over the characters of its argument.  A call of   *)
(* analyze_resume is a short process: the thread-local analysis, then the  *)
(* steps of _generate_suggestions that touch the generator shared by the   *)
(* whole process (random.seed, the getrandbits calls of random.sample),    *)
(* then the return.                                                        *)
(***************************************************************************)
EXTENDS Integers, Sequences, FiniteSets, TLC

\* ------------------------------------------------------------ characters

LowerLetters == "abcdefghijklmnopqrstuvwxyz"
UpperLetters == "ABCDEFGHIJKLMNOPQRSTUVWXYZ"
Digits == "0123456789"

Char(s, i) == SubSeq(s, i, i)
Chars(s) == {Char(s, i) : i \in 1..Len(s)}

LowerSet == Chars(LowerLetters)
UpperSet == Chars(UpperLetters)
DigitSet == Chars(Digits)
\* \s of the regular expressions and the separators of str.split()
SpaceSet == {" ", "\n", "\t"}
\* \w of the regular expressions: letters, digits and the underscore
WordSet == LowerSet \cup UpperSet \cup DigitSet \cup {"_"}

IndexIn(c, s) == CHOOSE i \in 1..Len(s) : Char(s, i) = c

\* str.lower() on one character, then on a text
LowerChar(c) == IF c \in UpperSet THEN Char(LowerLetters, IndexIn(c, UpperLetters)) ELSE c

\* (a text is lowered half by half, so that long texts nest only a few levels)
RECURSIVE Lower(_)
Lower(s) ==
    IF Len(s) <= 1 THEN LowerChar(s)
    ELSE LET h == Len(s) \div 2
         IN  Lower(SubSeq(s, 1, h)) \o Lower(SubSeq(s, h + 1, Len(s)))

\* str.split(): the maximal runs of non-whitespace characters, in order
\* (the words of the two halves of the text, with the word the cut runs through
\* put together again)
RECURSIVE Split(_)
Split(s) ==
    IF Len(s) = 0 THEN << >>
    ELSE IF Len(s) = 1 THEN (IF s \in SpaceSet THEN << >> ELSE <<s>>)
    ELSE LET h     == Len(s) \div 2
             left  == Split(SubSeq(s, 1, h))
             right == Split(SubSeq(s, h + 1, Len(s)))
         IN  IF Char(s, h) \in SpaceSet \/ Char(s, h + 1) \in SpaceSet
             THEN left \o right
             ELSE SubSeq(left, 1, Len(left) - 1)
                  \o <<left[Len(left)] \o right[1]>>
                  \o Tail(right)

Range(f) == {f[i] : i \in DOMAIN f}
Min(a, b) == IF a < b THEN a ELSE b
Max(a, b) == IF a > b THEN a ELSE b

\* ------------------------------------------------------------- tokenizer

_STOP_WORDS ==
    {"a","an","the","and","or","but","in","on","at","to","for","of","with",
     "by","from","up","about","into","through","during","is","are","was",
     "were","be","been","being","have","has","had","do","does","did","will",
     "would","could","should","may","might","shall","can","need","dare",
     "ought","used","it","its","this","that","these","those","i","you","he",
     "she","we","they","what","which","who","whom","when","where","why","how",
     "all","each","every","both","few","more","most","other","some","such",
     "no","not","only","same","so","than","too","very","just","as","if",
     "then","because","while","although","though","unless","until","since",
     "after","before","above","below","between","under","over","again",
     "further","once","here","there","own","s","t","re","ve","ll","d"}

\* re.sub(r"[^a-z0-9\s]", " ", text)
RECURSIVE StripPunct(_)
StripPunct(s) ==
    IF Len(s) = 0 THEN ""
    ELSE IF Len(s) = 1 THEN (IF s \in LowerSet \cup DigitSet \cup SpaceSet THEN s ELSE " ")
    ELSE LET h == Len(s) \div 2
         IN  StripPunct(SubSeq(s, 1, h)) \o StripPunct(SubSeq(s, h + 1, Len(s)))

KeepToken(t) == Len(t) > 2 /\ t \notin _STOP_WORDS

_tokenize(text) == SelectSeq(Split(StripPunct(Lower(text))), KeepToken)

\* ------------------------------------------------ fixed-point real arithmetic

(* The TF-IDF weights, magnitudes and the cosine are doubles that are not    *)
(* multiples of a simple fraction (they involve ln and sqrt), so they are    *)
(* held in fixed point with eight decimal places: the integer v stands for   *)
(* v / ONE.  Products and quotients are computed in two limbs of four        *)
(* digits so that no intermediate value leaves 32 bits.                      *)
LIMB == 10000
\* the outcome of an operation that raises ZeroDivisionError (every value is >= 0)
ZeroDivisionError == -1
ONE == LIMB * LIMB

\* floor(a * b / ONE)
FxMul(a, b) ==
    LET a1 == a \div LIMB
        a0 == a % LIMB
        b1 == b \div LIMB
        b0 == b % LIMB
    IN  a1 * b1 + ((a1 * b0 + a0 * b1 + ((a0 * b0) \div LIMB)) \div LIMB)

\* floor(a * ONE / b) by long division, one decimal digit a step, 0 < b < 2^31 / 10
RECURSIVE FxDivDigits(_, _, _, _)
FxDivDigits(q, r, b, n) ==
    IF n = 0 THEN q
    ELSE FxDivDigits(10 * q + ((10 * r) \div b), (10 * r) % b, b, n - 1)

\* a / b raises ZeroDivisionError for b = 0
FxDiv(a, b) == IF b = 0 THEN ZeroDivisionError ELSE FxDivDigits(a \div b, a % b, b, 8)

\* math.sqrt: the largest y with y * y / ONE <= x, by bisection on lo <= y < hi
RECURSIVE FxSqrtIn(_, _, _)
FxSqrtIn(x, lo, hi) ==
    IF hi - lo <= 1 THEN lo
    ELSE LET mid == (lo + hi) \div 2
         IN  IF FxMul(mid, mid) <= x THEN FxSqrtIn(x, mid, hi) ELSE FxSqrtIn(x, lo, mid)

FxSqrt(x) == FxSqrtIn(x, 0, 4 * ONE)

\* math.log at the integers 1..64, in fixed point
LnInt ==
    <<0, 69314718, 109861229, 138629436, 160943791, 179175947, 194591015, 207944154,
      219722458, 230258509, 239789527, 248490665, 256494936, 263905733, 270805020, 277258872,
      283321334, 289037176, 294443898, 299573227, 304452244, 309104245, 313549422, 317805383,
      321887582, 325809654, 329583687, 333220451, 336729583, 340119738, 343398720, 346573590,
      349650756, 352636052, 355534806, 358351894, 361091791, 363758616, 366356165, 368887945,
      371357207, 373766962, 376120012, 378418963, 380666249, 382864140, 385014760, 387120101,
      389182030, 391202301, 393182563, 395124372, 397029191, 398898405, 400733319, 402535169,
      404305127, 406044301, 407753744, 409434456, 411087386, 412713439, 414313473, 415888308>>

\* math.log(a / b) for integers a, b in 1..64
LnRatio(a, b) == LnInt[a] - LnInt[b]

\* ------------------------------------------------- IEEE-754 double arithmetic

(* The composite score is int(keyword_score * 0.60 + skills_score * 0.20 +   *)
(* format_score * 0.20) in binary64.  Every value of that expression is a   *)
(* multiple of one fifth up to a rounding error, so a double x is held      *)
(* exactly as <<q, e>> with x = q/5 + e * 2^-55 / 5.  The literals are      *)
(* 0.60 = 3/5 - 4 units and 0.20 = 1/5 + 2 units; each operation is the     *)
(* exact result rounded to 53 significant bits, ties to even.               *)
Dbl060 == <<3, -4>>
Dbl020 == <<1, 2>>

RECURSIVE Pow2(_)
Pow2(n) == IF n = 0 THEN 1 ELSE 2 * Pow2(n - 1)

\* x >= 2^k for x = q/5 + e units (k may be negative)
DblAtLeastPow2(x, k) ==
    IF k >= 0
    THEN x[1] > 5 * Pow2(k) \/ (x[1] = 5 * Pow2(k) /\ x[2] >= 0)
    ELSE x[1] * Pow2(-k) > 5 \/ (x[1] * Pow2(-k) = 5 /\ x[2] >= 0)

\* the binary exponent: the largest E in -8..9 with x >= 2^E
DblExponent(x) == CHOOSE E \in -8..9 : DblAtLeastPow2(x, E) /\ ~DblAtLeastPow2(x, E + 1)

\* 2^n mod 5
Pow2Mod5(n) == <<1, 2, 4, 3>>[(n % 4) + 1]

\* round to nearest, ties to even, on the grid of spacing 2^(E-52) = 5 * 2^(E+3) units
DblRound(x) ==
    IF x[1] = 0 /\ x[2] = 0 THEN x
    ELSE LET E  == DblExponent(x)
             G  == 5 * Pow2(E + 3)
             R  == (Pow2(E + 3) * ((x[1] * Pow2Mod5(52 - E)) % 5) + x[2]) % G
             R2 == (Pow2(E + 4) * ((x[1] * Pow2Mod5(51 - E)) % 5) + x[2]) % (2 * G)
             down == <<x[1], x[2] - R>>
             up   == <<x[1], x[2] + G - R>>
         IN  IF 2 * R < G THEN down
             ELSE IF 2 * R > G THEN up
             ELSE IF R2 < G THEN down ELSE up

\* k * c for an int k and a double literal c; a + b
DblMulInt(k, c) == DblRound(<<k * c[1], k * c[2]>>)
DblAdd(a, b) == DblRound(<<a[1] + b[1], a[2] + b[2]>>)

\* int(x), x >= 0: truncation
DblTrunc(x) == IF x[1] % 5 = 0 /\ x[2] < 0 THEN (x[1] \div 5) - 1 ELSE x[1] \div 5
\* round(x), x >= 0: the nearest integer (an exact half is a multiple of 1/2 and of
\* 1/5 at once only when it is an integer, so no tie arises)
DblRoundInt(x) ==
    LET f == x[1] \div 5
        r == x[1] % 5
    IN  IF r >= 3 THEN f + 1 ELSE f

(* skills_score = int(matched / count * 100) in binary64, 0 <= m <= n, n >= 1.  *)
(* x = m / n is the quotient rounded to 53 bits: x = (m * 2^t + err) / n * 2^-t  *)
(* with err the rounding remainder; 100 * x is rounded again.  The truncation   *)
(* differs from floor(100 m / n) only when n divides 100 m and the second       *)
(* rounding lands below that integer.                                           *)
RECURSIVE PowMod(_, _, _)
PowMod(b, e, n) == IF e = 0 THEN 1 % n ELSE (PowMod(b, e - 1, n) * b) % n

\* floor(log2(num / den)), num, den > 0
FloorLog2(num, den) ==
    CHOOSE E \in -12..12 :
        /\ num * Pow2(Max(0, -E)) >= den * Pow2(Max(0, E))
        /\ num * Pow2(Max(0, -(E + 1))) < den * Pow2(Max(0, E + 1))

IsPow2(n) == \E k \in 0..12 : n = Pow2(k)

DblTruncRatio100(m, n) ==
    IF n = 0 THEN ZeroDivisionError ELSE
    LET F == (100 * m) \div n IN
    IF (100 * m) % n # 0 \/ m = 0 THEN F
    ELSE LET e   == FloorLog2(m, n)
             r   == (m * PowMod(2, 52 - e, n)) % n
             err == IF 2 * r < n THEN -r ELSE n - r
             e2  == IF err < 0 /\ IsPow2(F) THEN FloorLog2(F, 1) - 1 ELSE FloorLog2(F, 1)
         IN  IF r # 0 /\ 200 * err < -(n * Pow2(e2 - e)) THEN F - 1 ELSE F

\* ------------------------------------------------------ TF-IDF and cosine

\* the distinct elements of a sequence in order of first occurrence
\* (list(dict.fromkeys(xs)), and the key order of Counter(xs))
Dedup(xs) ==
    LET first == {i \in DOMAIN xs : \A j \in 1..(i - 1) : xs[j] # xs[i]}
    IN  [k \in 1..Cardinality(first) |->
            xs[CHOOSE i \in first : Cardinality({j \in first : j <= i}) = k]]

Count(x, xs) == Cardinality({i \in DOMAIN xs : xs[i] = x})

\* a dict is the sequence of its <<key, value>> items in insertion order
DictGet(d, k, default) ==
    IF \E i \in DOMAIN d : d[i][1] = k
    THEN d[CHOOSE i \in DOMAIN d : d[i][1] = k][2]
    ELSE default

\* the term frequency c / total is kept as the pair <<c, total>>
_term_freq(tokens) ==
    IF tokens = << >> THEN << >>
    ELSE LET keys == Dedup(tokens)
         IN  [i \in DOMAIN keys |-> <<keys[i], <<Count(keys[i], tokens), Len(tokens)>>>>]

\* the double c / total, in fixed point
TfValue(tf) == IF tf[2] = 0 THEN ZeroDivisionError ELSE (tf[1] * ONE) \div tf[2]

\* sum(1 for doc in docs if term in doc)
DocFreq(term, docs) == Cardinality({i \in DOMAIN docs : term \in Range(docs[i])})

\* the weight without the smoothing: log(N / df) + 1
_idf_unsmoothed(term, docs) ==
    LET df == DocFreq(term, docs)
    IN  IF df = 0 THEN 0
        ELSE LnRatio(Len(docs), df) + ONE

_idf(term, docs) ==
    LET df == DocFreq(term, docs)
    IN  IF df = 0 THEN 0
        ELSE LnRatio(1 + Len(docs), 1 + df) + ONE

_tfidf_vector(tokens, vocab, idf_map) ==
    LET tf == _term_freq(tokens)
    IN  [i \in DOMAIN vocab |->
            LET f == DictGet(tf, vocab[i], <<0, 1>>)
            IN  FxMul(TfValue(f), IF vocab[i] \in DOMAIN idf_map THEN idf_map[vocab[i]] ELSE 0)]

RECURSIVE SumSeq(_)
SumSeq(xs) == IF xs = << >> THEN 0 ELSE xs[1] + SumSeq(Tail(xs))

\* the quotient by the squared magnitudes (the square roots left out)
_cosine_similarity_without_sqrt(vec_a, vec_b) ==
    LET n     == Min(Len(vec_a), Len(vec_b))
        dot   == SumSeq([i \in 1..n |-> FxMul(vec_a[i], vec_b[i])])
        mag_a == SumSeq([i \in DOMAIN vec_a |-> FxMul(vec_a[i], vec_a[i])])
        mag_b == SumSeq([i \in DOMAIN vec_b |-> FxMul(vec_b[i], vec_b[i])])
    IN  IF mag_a = 0 \/ mag_b = 0 THEN 0
        ELSE FxDiv(dot, FxMul(mag_a, mag_b))

_cosine_similarity(vec_a, vec_b) ==
    LET n     == Min(Len(vec_a), Len(vec_b))
        dot   == SumSeq([i \in 1..n |-> FxMul(vec_a[i], vec_b[i])])
        mag_a == FxSqrt(SumSeq([i \in DOMAIN vec_a |-> FxMul(vec_a[i], vec_a[i])]))
        mag_b == FxSqrt(SumSeq([i \in DOMAIN vec_b |-> FxMul(vec_b[i], vec_b[i])]))
    IN  IF mag_a = 0 \/ mag_b = 0 THEN 0
        ELSE FxDiv(dot, FxMul(mag_a, mag_b))

\* the local variables of _similarity past its early return
SimilarityLocals(tok_a, tok_b) ==
    LET vocab   == Dedup(tok_a \o tok_b)
        docs    == <<tok_a, tok_b>>
        idf_map == [term \in Range(vocab) |-> _idf(term, docs)]
    IN  [vocab   |-> vocab,
         docs    |-> docs,
         df      |-> [term \in Range(vocab) |-> DocFreq(term, docs)],
         idf_map |-> idf_map,
         vec_a   |-> _tfidf_vector(tok_a, vocab, idf_map),
         vec_b   |-> _tfidf_vector(tok_b, vocab, idf_map)]

_similarity(text_a, text_b) ==
    LET tok_a == _tokenize(text_a)
        tok_b == _tokenize(text_b)
    IN  IF tok_a = << >> \/ tok_b = << >> THEN 0
        ELSE LET l == SimilarityLocals(tok_a, tok_b)
             IN  _cosine_similarity(l.vec_a, l.vec_b)

\* ------------------------------------------------------------ keyword lists

\* stable descending sort of dict items by value: each step takes the first item
\* of greatest value (sorted(scored, key=scored.get, reverse=True))
\* (an item's place is one more than the number of items sorted before it)

\* the same order with equal values reversed (an ascending sort, then reversed)
SortedByValueAscReversed(d) ==
    LET Ahead(i) == {j \in DOMAIN d : d[j][2] > d[i][2] \/ (d[j][2] = d[i][2] /\ j > i)}
    IN  [k \in DOMAIN d |-> d[CHOOSE i \in DOMAIN d : Cardinality(Ahead(i)) = k - 1][1]]

SortedByValueDesc(d) ==
    LET Ahead(i) == {j \in DOMAIN d : d[j][2] > d[i][2] \/ (d[j][2] = d[i][2] /\ j < i)}
    IN  [k \in DOMAIN d |-> d[CHOOSE i \in DOMAIN d : Cardinality(Ahead(i)) = k - 1][1]]

\* score * (1 + math.log(1 / score)) with score = c / total, held as <<c, total>>
ScoreOf(f) == FxMul(TfValue(f), ONE + LnRatio(f[2], f[1]))

_top_keywords(text, n) ==
    LET tokens == _tokenize(text) IN
    IF tokens = << >> THEN << >>
    ELSE LET tf     == _term_freq(tokens)
             scored == [i \in DOMAIN tf |-> <<tf[i][1], ScoreOf(tf[i][2])>>]
             ranked == SortedByValueDesc(scored)
         IN  SubSeq(ranked, 1, Min(n, Len(ranked)))

\* the order of str comparison on tokens: by code point, digits before letters
CodeOrder == Digits \o UpperLetters \o LowerLetters

StrLess(a, b) ==
    LET differ == {i \in 1..Min(Len(a), Len(b)) : Char(a, i) # Char(b, i)}
    IN  IF differ = {} THEN Len(a) < Len(b)
        ELSE LET i == CHOOSE i \in differ : \A j \in differ : i <= j
             IN  IndexIn(Char(a, i), CodeOrder) < IndexIn(Char(b, i), CodeOrder)

\* sorted(S) for a set of strings
Sorted(S) ==
    [k \in 1..Cardinality(S) |->
        CHOOSE x \in S : Cardinality({y \in S : StrLess(y, x)}) = k - 1]

Take(xs, n) == SubSeq(xs, 1, Min(n, Len(xs)))

\* the sorted lists without the cap of 20
_keyword_overlap_uncapped(resume_text, jd_text) ==
    LET jd_kws     == Range(_top_keywords(jd_text, 40))
        resume_kws == Range(_top_keywords(resume_text, 60))
    IN  [matched |-> Sorted(jd_kws \cap resume_kws),
         missing |-> Sorted(jd_kws \ resume_kws)]

_keyword_overlap(resume_text, jd_text) ==
    LET jd_kws     == Range(_top_keywords(jd_text, 40))
        resume_kws == Range(_top_keywords(resume_text, 60))
    IN  [matched |-> Take(Sorted(jd_kws \cap resume_kws), 20),
         missing |-> Take(Sorted(jd_kws \ resume_kws), 20)]

\* --------------------------------------------------------- skill taxonomy

SKILLS_DB ==
  <<
    \* programming_languages
    <<"python", "java", "javascript", "typescript", "c++", "c#", "c",
       "ruby", "php", "swift", "kotlin", "go", "rust", "scala", "r",
       "matlab", "perl", "shell", "bash", "powershell", "dart", "lua">>,
    \* web_frontend
    <<"html", "css", "react", "reactjs", "vue", "vuejs", "angular",
       "nextjs", "nuxtjs", "svelte", "jquery", "bootstrap", "tailwind",
       "sass", "scss", "webpack", "vite", "graphql">>,
    \* web_backend
    <<"flask", "django", "fastapi", "express", "nodejs", "spring",
       "laravel", "rails", "asp.net", "nestjs", "gin", "fiber">>,
    \* databases
    <<"sql", "mysql", "postgresql", "postgres", "mongodb", "redis",
       "sqlite", "oracle", "cassandra", "dynamodb", "elasticsearch", "neo4j",
       "mariadb", "firebase">>,
    \* cloud_devops
    <<"aws", "azure", "gcp", "google cloud", "docker", "kubernetes",
       "terraform", "ansible", "jenkins", "github actions", "circleci",
       "linux", "nginx", "apache", "helm", "prometheus", "grafana">>,
    \* data_ml
    <<"machine learning", "deep learning", "nlp", "computer vision",
       "tensorflow", "pytorch", "keras", "scikit-learn", "sklearn", "pandas",
       "numpy", "matplotlib", "seaborn", "spark", "hadoop", "tableau",
       "power bi", "data analysis", "data science", "statistics",
       "regression", "classification", "neural network">>,
    \* tools_practices
    <<"git", "github", "gitlab", "bitbucket", "jira", "confluence", "agile",
       "scrum", "kanban", "ci/cd", "rest api", "microservices",
       "unit testing", "pytest", "jest", "selenium", "postman", "figma",
       "adobe xd", "linux", "vim">>,
    \* soft_skills
    <<"leadership", "communication", "teamwork", "problem solving",
       "critical thinking", "time management", "adaptability",
       "project management", "collaboration", "presentation">>
  >>

RECURSIVE Flatten(_)
Flatten(groups) == IF groups = << >> THEN << >> ELSE groups[1] \o Flatten(Tail(groups))

ALL_SKILLS == Flatten(SKILLS_DB)

\* (the dashes of the message texts are written as hyphens)
SUGGESTIONS_BANK ==
    <<"Add quantifiable achievements (e.g., 'Increased sales by 30%').",
     "Use strong action verbs: led, built, designed, optimized, reduced.",
     "Include a concise professional summary at the top.",
     "Tailor the Skills section to match the job description keywords.",
     "Ensure consistent date formatting throughout (e.g., Jan 2022 - Mar 2024).",
     "Keep your resume to 1-2 pages for most roles.",
     "Spell out acronyms at least once (e.g., 'Natural Language Processing (NLP)').",
     "Add links to your GitHub, LinkedIn, or portfolio.",
     "Use a clean single-column layout for better ATS compatibility.",
     "Proofread carefully - typos can cost you the interview.",
     "Highlight the impact of your work, not just the tasks performed.",
     "List your most relevant experience first.">>

\* ---------------------------------------------------------- regex searching

IsWordAt(text, p) == p >= 1 /\ p <= Len(text) /\ Char(text, p) \in WordSet

\* \b between the characters p - 1 and p of the text
Boundary(text, p) == IsWordAt(text, p - 1) # IsWordAt(text, p)

\* the literal lit occupies the characters p .. p + Len(lit) - 1
LiteralAt(text, lit, p) ==
    /\ p >= 1
    /\ p + Len(lit) - 1 <= Len(text)
    /\ SubSeq(text, p, p + Len(lit) - 1) = lit

\* "lit in text"
Contains(text, lit) == \E p \in 1..(Len(text) - Len(lit) + 1) : LiteralAt(text, lit, p)

\* substring containment where the code searches between word boundaries
SearchSubstring(text, lit) == Contains(text, lit)

\* re.search(r"\b" + re.escape(lit) + r"\b", text)
SearchWord(text, lit) ==
    \E p \in 1..(Len(text) - Len(lit) + 1) :
        /\ LiteralAt(text, lit, p)
        /\ Boundary(text, p)
        /\ Boundary(text, p + Len(lit))

AllIn(text, from, to, class) == \A p \in from..to : Char(text, p) \in class

\* re.search(r"\b[\w.+-]+@[\w-]+\.[a-z]{2,}\b", text): the local part is the
\* characters s .. a - 1, the domain a + 1 .. d - 1, the suffix d + 1 .. e
EmailLocalSet == WordSet \cup {".", "+", "-"}
EmailDomainSet == WordSet \cup {"-"}

SearchEmail(text) ==
    \E a \in 2..Len(text) :
        /\ Char(text, a) = "@"
        /\ \E s \in 1..(a - 1) :
              Boundary(text, s) /\ AllIn(text, s, a - 1, EmailLocalSet)
        /\ \E d \in (a + 2)..Len(text) :
              /\ Char(text, d) = "."
              /\ AllIn(text, a + 1, d - 1, EmailDomainSet)
              /\ \E e \in (d + 2)..Len(text) :
                    AllIn(text, d + 1, e, LowerSet) /\ Boundary(text, e + 1)

\* re.search(r"\+?[\d\s()\-]{7,15}", text) and the same with {7,14}: some `least`
\* consecutive characters of the class (the sign is optional, the run may be longer)
PhoneSet == DigitSet \cup SpaceSet \cup {"(", ")", "-"}

SearchPhone(text, least) ==
    \E p \in 1..(Len(text) - least + 1) : AllIn(text, p, p + least - 1, PhoneSet)

\* re.search(r"\b(20\d{2}|19\d{2})\b", text)
SearchYear(text) ==
    \E p \in 1..(Len(text) - 3) :
        /\ Boundary(text, p)
        /\ (LiteralAt(text, "20", p) \/ LiteralAt(text, "19", p))
        /\ AllIn(text, p + 2, p + 3, DigitSet)
        /\ Boundary(text, p + 4)

\* re.search(r"\|.+\|", text): two bars of one line with something between them
SearchTable(text) ==
    \E p \in 1..Len(text) :
        /\ Char(text, p) = "|"
        /\ \E r \in (p + 2)..Len(text) :
              /\ Char(text, r) = "|"
              /\ \A m \in (p + 1)..(r - 1) : Char(text, m) # "\n"

\* re.search over the class of eight bullet glyphs.  Three of them (U+2605, U+2713,
\* U+2714) cannot be written in a string of a module and no text of the model
\* holds them; the other five are the class here.
BulletGlyphs == {"➤", "►", "●", "▪", "▸"}

SearchGlyph(text) == \E p \in 1..Len(text) : Char(text, p) \in BulletGlyphs

\* ------------------------------------------------------------ skill matching

\* the lists as collected, without list(dict.fromkeys(...))
_match_skills_with_duplicates(resume_text, jd_text) ==
    LET resume_lower == Lower(resume_text)
        jd_lower     == Lower(jd_text)
        jd_skills    == SelectSeq(ALL_SKILLS, LAMBDA skill : SearchWord(jd_lower, skill))
    IN  [matched |-> SelectSeq(jd_skills, LAMBDA skill : SearchWord(resume_lower, skill)),
         missing |-> SelectSeq(jd_skills, LAMBDA skill : ~SearchWord(resume_lower, skill))]

_match_skills(resume_text, jd_text) ==
    LET resume_lower == Lower(resume_text)
        jd_lower     == Lower(jd_text)
        jd_skills    == SelectSeq(ALL_SKILLS, LAMBDA skill : SearchWord(jd_lower, skill))
        matched      == SelectSeq(jd_skills, LAMBDA skill : SearchWord(resume_lower, skill))
        missing      == SelectSeq(jd_skills, LAMBDA skill : ~SearchWord(resume_lower, skill))
    IN  [matched |-> Dedup(matched), missing |-> Dedup(missing)]

\* ------------------------------------------------- format score and ATS check

HEADINGS == <<"experience", "education", "skills", "summary", "objective",
              "projects", "certifications", "achievements">>

VERBS == <<"led", "built", "designed", "managed", "developed", "implemented",
           "improved", "reduced", "increased", "achieved", "created", "delivered">>

\* the rubric with the lower length threshold moved by one: len(words) >= 100
_format_score_from_100(resume_text) ==
    LET lower    == Lower(resume_text)
        words    == Split(resume_text)
        length   == IF 300 <= Len(words) /\ Len(words) <= 1200 THEN 25
                    ELSE IF Len(words) >= 100 THEN 12 ELSE 0
        email    == IF SearchEmail(lower) THEN 15 ELSE 0
        phone    == IF SearchPhone(resume_text, 7) THEN 10 ELSE 0
        found    == Cardinality({i \in DOMAIN HEADINGS : Contains(lower, HEADINGS[i])})
        headings == Min(found * 5, 30)
        dates    == IF SearchYear(resume_text) THEN 10 ELSE 0
        verbs    == IF \E i \in DOMAIN VERBS : Contains(lower, VERBS[i]) THEN 10 ELSE 0
    IN  Min(length + email + phone + headings + dates + verbs, 100)

\* what each step of _format_score adds to the score, and the headings it counts
FormatScoreParts(resume_text) ==
    LET lower == Lower(resume_text)
        words == Split(resume_text)
        found == {i \in DOMAIN HEADINGS : Contains(lower, HEADINGS[i])}
    IN  [length   |-> IF 300 <= Len(words) /\ Len(words) <= 1200 THEN 25
                      ELSE IF Len(words) > 100 THEN 12 ELSE 0,
         email    |-> IF SearchEmail(lower) THEN 15 ELSE 0,
         phone    |-> IF SearchPhone(resume_text, 7) THEN 10 ELSE 0,
         found    |-> {HEADINGS[i] : i \in found},
         headings |-> Min(Cardinality(found) * 5, 30),
         dates    |-> IF SearchYear(resume_text) THEN 10 ELSE 0,
         verbs    |-> IF \E i \in DOMAIN VERBS : Contains(lower, VERBS[i]) THEN 10 ELSE 0]

_format_score(resume_text) ==
    LET p == FormatScoreParts(resume_text)
    IN  Min(p.length + p.email + p.phone + p.headings + p.dates + p.verbs, 100)

ATS_TABLE    == "Avoid tables - ATS parsers may skip content inside them."
ATS_BULLETS  == "Replace special bullet characters with plain hyphens or asterisks."
ATS_EMAIL    == "No email address detected - make sure your contact info is in plain text."
ATS_PHONE    == "No phone number detected - ensure contact details are ATS-readable."
ATS_SHORT    == "Resume seems very short. Consider adding more detail to relevant sections."
ATS_SECTIONS == "Key sections (Experience, Skills, Projects) not detected. Use standard headings."

SECTION_WORDS == <<"experience", "work", "project", "skill">>

\* the checks with the length compared by <= 150
_ats_check_up_to_150(resume_text) ==
    LET lower == Lower(resume_text)
        If(cond, issue) == IF cond THEN <<issue>> ELSE << >>
    IN  If(SearchTable(resume_text), ATS_TABLE)
        \o If(SearchGlyph(resume_text), ATS_BULLETS)
        \o If(~SearchEmail(resume_text), ATS_EMAIL)
        \o If(~SearchPhone(resume_text, 7), ATS_PHONE)
        \o If(Len(Split(resume_text)) <= 150, ATS_SHORT)
        \o If(~\E i \in DOMAIN SECTION_WORDS : SearchWord(lower, SECTION_WORDS[i]), ATS_SECTIONS)

\* the checks without the one of the length
_ats_check_without_length(resume_text) ==
    LET lower == Lower(resume_text)
        If(cond, issue) == IF cond THEN <<issue>> ELSE << >>
    IN  If(SearchTable(resume_text), ATS_TABLE)
        \o If(SearchGlyph(resume_text), ATS_BULLETS)
        \o If(~SearchEmail(resume_text), ATS_EMAIL)
        \o If(~SearchPhone(resume_text, 7), ATS_PHONE)
        \o If(~\E i \in DOMAIN SECTION_WORDS : SearchWord(lower, SECTION_WORDS[i]), ATS_SECTIONS)

_ats_check(resume_text) ==
    LET lower == Lower(resume_text)
        If(cond, issue) == IF cond THEN <<issue>> ELSE << >>
    IN  If(SearchTable(resume_text), ATS_TABLE)
        \o If(SearchGlyph(resume_text), ATS_BULLETS)
        \o If(~SearchEmail(resume_text), ATS_EMAIL)
        \o If(~SearchPhone(resume_text, 7), ATS_PHONE)
        \o If(Len(Split(resume_text)) < 150, ATS_SHORT)
        \o If(~\E i \in DOMAIN SECTION_WORDS : SearchWord(lower, SECTION_WORDS[i]), ATS_SECTIONS)

\* ----------------------------------------------------- the shared generator

(* random.seed and random.sample act on the one Mersenne Twister instance of   *)
(* the random module, which every thread of the process shares.  Its state is  *)
(* determined by the last seed and the number of getrandbits calls since then. *)
(* MT_BITS4[seed + 1][pos + 1] is the value of call number pos of              *)
(* getrandbits(4) after random.seed(seed), seed = 0..100 (CPython's generator; *)
(* 4 is the bit length of 12, 11 and 10, the arguments of randbelow here).     *)
MT_BITS4 ==
  <<
    <<13, 6, 12, 14, 6, 0, 4, 15, 8, 7, 6, 14, 12, 13, 4, 15, 7, 5, 9, 14, 14, 3, 8, 2, 4, 2, 12, 1, 9, 12, 4, 15>>,
    <<2, 9, 13, 12, 12, 1, 4, 1, 7, 12, 7, 7, 10, 6, 12, 3, 1, 7, 0, 14, 13, 6, 6, 9, 12, 12, 0, 11, 7, 4, 11, 12>>,
    <<15, 13, 15, 13, 0, 1, 1, 5, 13, 2, 11, 12, 10, 13, 4, 4, 9, 3, 9, 0, 9, 10, 2, 15, 6, 10, 6, 12, 11, 13, 15, 8>>,
    <<3, 9, 8, 2, 5, 14, 9, 7, 10, 9, 1, 9, 0, 14, 13, 7, 4, 8, 3, 3, 15, 11, 7, 8, 13, 8, 7, 6, 10, 13, 2, 3>>,
    <<3, 4, 1, 11, 6, 7, 2, 1, 1, 0, 6, 8, 14, 4, 12, 15, 12, 0, 3, 8, 8, 5, 4, 12, 2, 13, 1, 4, 3, 15, 14, 0>>,
    <<9, 4, 11, 5, 12, 11, 15, 13, 11, 10, 14, 8, 0, 13, 7, 12, 15, 3, 10, 0, 14, 2, 1, 5, 7, 13, 3, 6, 8, 1, 9, 3>>,
    <<12, 9, 13, 1, 7, 12, 4, 0, 0, 2, 10, 9, 7, 15, 12, 11, 5, 5, 12, 0, 4, 7, 12, 3, 11, 13, 6, 14, 8, 8, 10, 1>>,
    <<5, 15, 2, 6, 10, 0, 1, 13, 8, 1, 5, 9, 0, 14, 8, 3, 0, 1, 6, 6, 1, 3, 1, 8, 6, 0, 13, 9, 1, 15, 3, 10>>,
    <<3, 5, 15, 6, 2, 3, 11, 0, 1, 2, 3, 12, 15, 8, 3, 6, 10, 0, 7, 7, 7, 6, 7, 9, 3, 14, 13, 6, 1, 7, 3, 12>>,
    <<7, 9, 5, 4, 2, 2, 13, 10, 0, 5, 8, 7, 14, 9, 1, 5, 8, 14, 9, 11, 0, 11, 6, 2, 11, 15, 7, 15, 11, 6, 2, 2>>,
    <<9, 0, 6, 7, 9, 0, 3, 7, 13, 7, 13, 4, 10, 12, 2, 0, 8, 7, 5, 1, 3, 15, 15, 11, 15, 5, 0, 6, 13, 2, 9, 5>>,
    <<7, 13, 8, 13, 14, 12, 7, 7, 8, 13, 9, 3, 2, 12, 8, 7, 10, 9, 12, 2, 1, 7, 4, 2, 1, 8, 12, 14, 11, 10, 0, 9>>,
    <<7, 4, 10, 8, 10, 5, 2, 6, 0, 15, 5, 7, 4, 10, 12, 7, 11, 13, 9, 3, 8, 0, 10, 9, 2, 15, 7, 5, 2, 5, 14, 3>>,
    <<4, 4, 10, 14, 10, 12, 13, 14, 2, 10, 3, 10, 2, 13, 3, 10, 11, 2, 2, 1, 8, 13, 3, 11, 4, 0, 6, 2, 13, 10, 9, 15>>,
    <<1, 9, 11, 12, 10, 8, 15, 3, 4, 11, 4, 4, 11, 1, 10, 7, 4, 7, 10, 13, 6, 6, 12, 14, 1, 4, 3, 13, 14, 5, 5, 12>>,
    <<15, 3, 0, 8, 11, 0, 2, 14, 15, 3, 0, 0, 14, 12, 10, 2, 13, 11, 15, 5, 3, 1, 5, 7, 11, 5, 4, 6, 4, 5, 3, 14>>,
    <<5, 7, 7, 4, 6, 3, 7, 0, 6, 13, 10, 11, 4, 3, 10, 3, 0, 4, 4, 13, 5, 10, 2, 15, 11, 9, 4, 0, 12, 3, 15, 9>>,
    <<8, 6, 12, 4, 15, 5, 4, 2, 12, 11, 11, 8, 10, 4, 1, 14, 0, 3, 6, 13, 11, 6, 4, 13, 8, 12, 5, 10, 13, 10, 15, 11>>,
    <<2, 1, 10, 7, 5, 3, 3, 15, 7, 10, 7, 2, 7, 4, 7, 14, 4, 3, 4, 14, 11, 1, 5, 8, 10, 12, 12, 2, 13, 15, 15, 12>>,
    <<10, 0, 12, 14, 8, 1, 8, 3, 6, 5, 15, 8, 4, 9, 2, 9, 4, 1, 4, 6, 5, 15, 4, 13, 1, 12, 5, 14, 4, 0, 9, 9>>,
    <<14, 11, 10, 12, 12, 14, 14, 2, 4, 10, 10, 13, 14, 1, 13, 5, 9, 14, 2, 0, 6, 6, 15, 1, 1, 2, 5, 7, 15, 9, 7, 6>>,
    <<2, 6, 11, 6, 10, 4, 7, 13, 3, 15, 12, 7, 12, 15, 8, 2, 8, 8, 3, 12, 0, 0, 5, 14, 9, 6, 1, 2, 12, 12, 3, 14>>,
    <<15, 14, 2, 3, 0, 9, 15, 7, 2, 11, 1, 11, 10, 14, 5, 12, 14, 1, 3, 4, 15, 0, 5, 15, 9, 2, 14, 8, 10, 11, 14, 6>>,
    <<14, 12, 15, 4, 14, 13, 1, 0, 9, 4, 6, 6, 8, 5, 2, 11, 3, 4, 7, 0, 3, 9, 7, 14, 0, 1, 1, 15, 11, 7, 6, 0>>,
    <<11, 6, 13, 9, 2, 3, 15, 2, 3, 2, 10, 10, 1, 11, 12, 15, 2, 12, 11, 4, 11, 14, 12, 0, 7, 7, 13, 11, 15, 10, 1, 0>>,
    <<6, 12, 14, 13, 13, 0, 3, 14, 13, 4, 10, 7, 0, 13, 15, 12, 4, 0, 4, 9, 6, 1, 9, 13, 1, 9, 10, 11, 13, 3, 8, 15>>,
    <<11, 14, 3, 10, 3, 6, 9, 8, 0, 2, 12, 15, 12, 7, 0, 11, 10, 9, 8, 2, 10, 6, 15, 3, 15, 11, 6, 11, 13, 3, 12, 11>>,
    <<10, 7, 11, 4, 15, 4, 3, 1, 1, 4, 13, 8, 5, 4, 5, 13, 13, 6, 2, 3, 14, 3, 7, 13, 1, 11, 14, 10, 9, 10, 1, 9>>,
    <<1, 11, 2, 8, 9, 11, 2, 3, 2, 10, 7, 12, 6, 3, 3, 2, 6, 2, 13, 15, 2, 9, 3, 3, 0, 6, 3, 1, 1, 6, 15, 14>>,
    <<8, 1, 5, 9, 13, 9, 4, 1, 8, 14, 5, 6, 6, 0, 15, 0, 1, 13, 7, 10, 3, 12, 5, 1, 15, 7, 5, 14, 9, 8, 6, 13>>,
    <<8, 12, 4, 9, 0, 9, 10, 13, 3, 15, 4, 0, 6, 6, 10, 2, 15, 1, 7, 0, 15, 8, 15, 14, 3, 0, 1, 15, 2, 14, 13, 13>>,
    <<0, 7, 1, 12, 6, 2, 10, 0, 2, 15, 1, 8, 3, 11, 12, 2, 2, 15, 11, 0, 10, 0, 2, 3, 8, 11, 7, 8, 6, 3, 15, 9>>,
    <<1, 14, 3, 2, 4, 11, 14, 3, 7, 0, 11, 0, 1, 5, 8, 5, 13, 0, 8, 11, 15, 15, 14, 7, 5, 9, 0, 8, 12, 12, 2, 8>>,
    <<9, 2, 10, 3, 13, 13, 4, 7, 10, 14, 14, 8, 14, 8, 2, 15, 10, 14, 9, 15, 8, 5, 15, 10, 8, 7, 7, 4, 15, 10, 10, 1>>,
    <<8, 5, 9, 0, 13, 3, 14, 0, 14, 6, 5, 15, 15, 1, 6, 15, 4, 5, 1, 9, 8, 13, 2, 1, 4, 5, 9, 0, 12, 2, 12, 8>>,
    <<8, 5, 12, 2, 11, 5, 13, 2, 4, 6, 15, 4, 9, 0, 11, 8, 12, 13, 14, 12, 4, 10, 5, 12, 11, 14, 9, 14, 12, 1, 5, 0>>,
    <<5, 0, 15, 0, 15, 12, 14, 14, 12, 4, 14, 1, 0, 8, 10, 2, 3, 4, 11, 10, 6, 5, 8, 4, 8, 1, 9, 6, 13, 7, 15, 6>>,
    <<10, 9, 1, 14, 9, 10, 13, 11, 13, 10, 8, 0, 10, 15, 5, 7, 8, 12, 1, 15, 10, 7, 9, 12, 4, 14, 6, 15, 11, 6, 7, 2>>,
    <<10, 6, 6, 12, 11, 1, 1, 5, 11, 7, 5, 0, 9, 10, 2, 9, 5, 5, 4, 11, 5, 9, 11, 4, 7, 15, 15, 12, 9, 6, 3, 14>>,
    <<3, 4, 6, 0, 3, 3, 6, 11, 9, 0, 10, 12, 4, 10, 5, 11, 2, 15, 13, 0, 4, 10, 14, 13, 1, 5, 0, 1, 6, 5, 6, 12>>,
    <<7, 9, 14, 8, 0, 3, 4, 10, 15, 10, 10, 3, 2, 12, 5, 4, 14, 11, 7, 13, 0, 8, 14, 11, 2, 0, 10, 3, 9, 11, 7, 13>>,
    <<6, 5, 3, 15, 2, 14, 14, 6, 9, 14, 11, 4, 8, 4, 6, 13, 11, 12, 9, 0, 12, 3, 10, 15, 13, 0, 7, 15, 2, 15, 2, 15>>,
    <<10, 1, 0, 11, 4, 3, 3, 2, 11, 1, 10, 11, 14, 8, 1, 9, 6, 0, 0, 1, 3, 3, 8, 9, 0, 8, 3, 11, 10, 11, 8, 6>>,
    <<0, 4, 11, 12, 2, 15, 7, 5, 10, 11, 12, 1, 7, 9, 7, 9, 0, 8, 6, 9, 5, 9, 13, 15, 8, 14, 12, 15, 6, 6, 2, 0>>,
    <<6, 8, 8, 11, 13, 1, 2, 6, 3, 4, 0, 3, 1, 9, 0, 1, 2, 12, 8, 11, 15, 4, 11, 10, 6, 9, 6, 12, 11, 10, 5, 5>>,
    <<4, 6, 7, 4, 1, 4, 5, 0, 1, 7, 0, 1, 4, 12, 1, 15, 4, 13, 11, 10, 0, 14, 9, 1, 2, 4, 12, 14, 11, 2, 3, 15>>,
    <<14, 1, 6, 0, 9, 9, 13, 14, 3, 10, 8, 2, 9, 8, 15, 12, 0, 0, 1, 12, 5, 10, 13, 0, 13, 0, 2, 8, 14, 4, 8, 5>>,
    <<5, 1, 6, 8, 7, 9, 5, 4, 8, 6, 6, 9, 0, 12, 6, 10, 0, 15, 1, 0, 4, 15, 15, 12, 7, 11, 8, 0, 14, 13, 14, 5>>,
    <<8, 5, 2, 8, 11, 8, 4, 12, 15, 8, 3, 11, 12, 6, 2, 2, 15, 12, 13, 10, 1, 7, 10, 3, 3, 12, 8, 8, 13, 8, 2, 7>>,
    <<1, 5, 6, 14, 1, 5, 12, 8, 8, 12, 0, 10, 0, 12, 11, 4, 2, 7, 11, 0, 10, 8, 8, 3, 13, 14, 9, 4, 9, 5, 6, 0>>,
    <<7, 13, 4, 5, 10, 14, 3, 11, 7, 12, 15, 5, 1, 8, 5, 3, 10, 8, 1, 14, 2, 5, 13, 1, 15, 5, 5, 3, 3, 1, 15, 13>>,
    <<3, 13, 8, 8, 2, 3, 13, 15, 3, 13, 8, 4, 14, 13, 6, 8, 15, 7, 11, 11, 8, 8, 10, 5, 9, 10, 5, 6, 15, 4, 6, 11>>,
    <<15, 4, 0, 14, 11, 8, 7, 13, 15, 5, 6, 0, 14, 2, 2, 15, 15, 12, 6, 13, 2, 15, 5, 7, 10, 0, 0, 8, 6, 7, 0, 3>>,
    <<9, 13, 14, 3, 7, 8, 11, 7, 14, 11, 8, 5, 11, 7, 11, 0, 13, 14, 0, 14, 2, 15, 15, 5, 11, 2, 4, 14, 11, 0, 2, 0>>,
    <<14, 15, 2, 7, 8, 4, 7, 14, 15, 7, 6, 3, 7, 5, 9, 11, 6, 14, 14, 15, 14, 3, 11, 3, 0, 7, 15, 12, 8, 7, 9, 1>>,
    <<1, 15, 15, 3, 2, 15, 11, 4, 13, 1, 11, 2, 4, 1, 5, 14, 11, 14, 15, 13, 10, 7, 8, 6, 6, 8, 6, 5, 11, 15, 6, 15>>,
    <<15, 13, 8, 0, 7, 10, 8, 4, 12, 8, 15, 14, 6, 11, 3, 1, 5, 9, 1, 5, 10, 4, 15, 9, 3, 0, 12, 9, 3, 0, 14, 9>>,
    <<0, 5, 9, 9, 0, 3, 8, 5, 15, 7, 4, 15, 15, 6, 10, 13, 14, 6, 0, 13, 11, 2, 8, 14, 9, 5, 6, 6, 15, 1, 10, 14>>,
    <<9, 3, 3, 11, 10, 15, 15, 3, 0, 3, 7, 6, 5, 15, 4, 12, 14, 4, 15, 7, 12, 9, 6, 4, 13, 9, 1, 0, 7, 3, 7, 12>>,
    <<3, 1, 14, 10, 15, 7, 0, 2, 13, 4, 11, 0, 10, 9, 0, 14, 13, 7, 6, 7, 12, 14, 8, 4, 12, 2, 11, 9, 5, 15, 10, 2>>,
    <<4, 4, 9, 2, 4, 3, 12, 7, 7, 14, 5, 15, 14, 0, 12, 14, 13, 1, 10, 13, 2, 2, 6, 0, 3, 10, 12, 14, 0, 6, 12, 11>>,
    <<7, 2, 8, 3, 12, 14, 5, 4, 5, 12, 11, 0, 7, 5, 5, 1, 6, 7, 5, 15, 2, 5, 10, 0, 14, 8, 11, 1, 10, 2, 5, 0>>,
    <<14, 9, 2, 1, 15, 13, 3, 14, 7, 4, 14, 10, 5, 2, 8, 2, 2, 0, 15, 4, 15, 10, 2, 13, 1, 0, 7, 7, 8, 0, 12, 13>>,
    <<7, 7, 4, 14, 14, 4, 7, 10, 1, 6, 11, 1, 1, 10, 3, 4, 1, 13, 10, 4, 13, 11, 9, 0, 3, 10, 13, 15, 13, 2, 5, 3>>,
    <<7, 1, 10, 9, 6, 8, 14, 10, 0, 3, 15, 4, 11, 14, 12, 10, 12, 12, 3, 11, 13, 12, 10, 15, 2, 1, 13, 6, 7, 3, 11, 0>>,
    <<6, 4, 4, 8, 13, 3, 7, 7, 8, 7, 8, 14, 5, 13, 10, 6, 14, 3, 1, 14, 8, 7, 4, 3, 10, 7, 9, 11, 0, 4, 1, 2>>,
    <<1, 4, 6, 14, 3, 12, 7, 4, 4, 15, 13, 12, 8, 1, 11, 13, 14, 13, 7, 2, 7, 8, 2, 14, 12, 11, 1, 11, 5, 11, 2, 6>>,
    <<1, 1, 12, 6, 15, 7, 6, 4, 15, 9, 6, 7, 9, 4, 14, 14, 3, 10, 0, 10, 2, 4, 0, 2, 7, 2, 1, 10, 1, 7, 4, 3>>,
    <<11, 7, 15, 11, 11, 13, 14, 8, 1, 9, 9, 3, 6, 7, 4, 11, 13, 10, 5, 7, 15, 8, 5, 2, 8, 10, 12, 12, 12, 1, 0, 8>>,
    <<10, 0, 1, 12, 2, 1, 9, 5, 5, 14, 14, 13, 12, 12, 13, 8, 6, 7, 13, 6, 9, 7, 13, 8, 5, 8, 8, 12, 7, 2, 6, 15>>,
    <<14, 1, 4, 11, 7, 7, 2, 5, 15, 1, 2, 13, 10, 10, 9, 3, 11, 10, 6, 12, 6, 3, 6, 10, 1, 8, 5, 12, 4, 6, 12, 14>>,
    <<5, 8, 9, 12, 0, 4, 15, 2, 13, 12, 15, 3, 4, 1, 3, 8, 0, 9, 3, 8, 0, 13, 11, 8, 5, 14, 13, 7, 12, 2, 5, 10>>,
    <<1, 12, 9, 11, 15, 2, 5, 11, 8, 9, 5, 4, 11, 11, 10, 15, 9, 2, 15, 15, 11, 11, 5, 3, 6, 2, 10, 0, 11, 12, 3, 7>>,
    <<4, 1, 8, 7, 9, 2, 7, 4, 9, 1, 7, 6, 8, 8, 3, 7, 1, 0, 4, 6, 12, 13, 0, 6, 5, 8, 6, 7, 8, 15, 6, 2>>,
    <<13, 9, 8, 13, 1, 5, 1, 12, 4, 2, 14, 13, 14, 3, 5, 1, 7, 12, 7, 8, 14, 4, 7, 2, 5, 4, 8, 9, 0, 11, 8, 0>>,
    <<7, 9, 6, 7, 0, 11, 12, 8, 10, 13, 10, 14, 7, 14, 10, 10, 14, 13, 11, 13, 5, 1, 14, 11, 5, 14, 1, 12, 4, 4, 7, 11>>,
    <<5, 7, 15, 6, 3, 14, 4, 0, 6, 13, 3, 4, 4, 12, 13, 7, 7, 3, 1, 5, 13, 4, 3, 5, 12, 8, 0, 0, 10, 6, 9, 14>>,
    <<12, 4, 5, 3, 3, 3, 13, 15, 1, 4, 7, 15, 8, 15, 9, 3, 2, 8, 10, 10, 8, 0, 13, 4, 0, 13, 15, 7, 2, 12, 13, 3>>,
    <<13, 3, 1, 4, 14, 10, 11, 13, 4, 11, 6, 14, 0, 10, 2, 14, 10, 6, 12, 10, 3, 14, 11, 7, 6, 15, 8, 0, 13, 14, 3, 11>>,
    <<2, 7, 5, 9, 2, 3, 3, 11, 11, 7, 2, 1, 5, 0, 3, 1, 15, 11, 7, 11, 4, 2, 6, 7, 13, 11, 5, 9, 13, 1, 6, 1>>,
    <<4, 6, 8, 14, 11, 13, 15, 6, 5, 5, 8, 6, 5, 0, 8, 12, 13, 15, 15, 6, 14, 3, 15, 9, 0, 6, 3, 2, 15, 8, 9, 0>>,
    <<8, 13, 7, 5, 8, 8, 6, 7, 13, 0, 2, 2, 7, 10, 12, 13, 9, 0, 14, 5, 4, 11, 5, 3, 4, 10, 2, 9, 1, 3, 8, 12>>,
    <<2, 12, 7, 15, 8, 4, 15, 13, 12, 2, 12, 2, 10, 4, 2, 12, 14, 0, 6, 7, 9, 13, 1, 3, 4, 8, 13, 2, 1, 7, 1, 10>>,
    <<7, 13, 13, 7, 1, 2, 6, 0, 0, 15, 10, 3, 3, 2, 4, 1, 13, 15, 0, 6, 2, 5, 4, 8, 12, 3, 7, 12, 10, 11, 14, 14>>,
    <<11, 4, 14, 12, 0, 7, 0, 8, 15, 10, 5, 13, 3, 7, 7, 13, 8, 12, 11, 5, 9, 2, 8, 15, 12, 11, 4, 8, 7, 6, 14, 14>>,
    <<3, 11, 9, 13, 1, 5, 14, 15, 3, 3, 7, 12, 12, 13, 14, 5, 9, 3, 10, 6, 8, 13, 13, 8, 3, 12, 10, 9, 9, 9, 7, 9>>,
    <<12, 12, 0, 8, 13, 15, 5, 11, 0, 12, 1, 11, 8, 11, 10, 4, 13, 11, 13, 6, 1, 14, 13, 8, 1, 15, 13, 6, 7, 0, 9, 12>>,
    <<2, 11, 3, 14, 13, 13, 8, 1, 4, 12, 5, 10, 8, 11, 5, 14, 11, 14, 1, 14, 5, 0, 4, 6, 12, 1, 13, 7, 8, 9, 14, 11>>,
    <<6, 15, 3, 5, 14, 2, 10, 0, 8, 12, 11, 0, 13, 5, 10, 7, 2, 3, 15, 15, 1, 11, 2, 9, 2, 7, 6, 5, 10, 6, 2, 4>>,
    <<1, 12, 9, 11, 15, 4, 2, 5, 13, 1, 2, 13, 6, 5, 14, 3, 4, 11, 10, 5, 1, 9, 13, 2, 7, 9, 0, 3, 2, 9, 7, 13>>,
    <<3, 11, 1, 7, 10, 9, 9, 4, 10, 14, 5, 12, 7, 9, 14, 15, 13, 4, 4, 7, 4, 5, 1, 8, 11, 2, 0, 15, 10, 10, 15, 15>>,
    <<1, 9, 2, 15, 10, 10, 2, 6, 15, 7, 13, 12, 11, 7, 7, 7, 13, 4, 3, 3, 9, 13, 5, 12, 7, 3, 15, 12, 3, 6, 12, 1>>,
    <<6, 8, 9, 8, 8, 12, 9, 4, 12, 12, 15, 14, 10, 12, 12, 1, 9, 8, 7, 2, 13, 13, 15, 1, 9, 10, 10, 5, 0, 0, 13, 0>>,
    <<14, 13, 7, 14, 9, 11, 5, 14, 1, 1, 5, 2, 2, 6, 1, 12, 2, 9, 0, 9, 8, 14, 1, 10, 9, 13, 5, 6, 14, 1, 10, 1>>,
    <<8, 2, 1, 13, 4, 4, 6, 13, 0, 10, 7, 5, 15, 4, 6, 9, 13, 4, 15, 8, 0, 6, 0, 11, 6, 5, 15, 14, 7, 5, 12, 3>>,
    <<12, 8, 8, 15, 15, 11, 8, 12, 14, 13, 2, 15, 7, 0, 2, 12, 0, 9, 1, 10, 4, 12, 3, 0, 9, 11, 8, 9, 3, 10, 10, 1>>,
    <<5, 5, 14, 10, 6, 14, 3, 1, 13, 5, 12, 0, 11, 14, 0, 2, 6, 10, 5, 1, 4, 15, 5, 5, 4, 2, 8, 12, 0, 13, 9, 7>>,
    <<3, 6, 12, 15, 5, 14, 13, 13, 12, 0, 9, 0, 8, 12, 0, 0, 14, 11, 13, 4, 5, 0, 1, 10, 7, 7, 10, 1, 13, 5, 3, 14>>,
    <<5, 9, 13, 0, 5, 6, 0, 15, 7, 4, 11, 13, 10, 8, 1, 12, 7, 14, 3, 6, 0, 10, 15, 12, 11, 12, 5, 0, 12, 12, 12, 14>>,
    <<6, 6, 3, 9, 2, 3, 3, 2, 12, 1, 4, 11, 6, 8, 10, 11, 8, 1, 15, 9, 7, 3, 6, 11, 9, 9, 3, 12, 14, 12, 5, 13>>,
    <<2, 7, 7, 15, 12, 2, 11, 6, 11, 5, 6, 8, 12, 1, 8, 1, 1, 11, 7, 4, 0, 10, 14, 10, 15, 3, 5, 3, 4, 13, 12, 15>>
  >>

getrandbits4(state) == MT_BITS4[state.seed + 1][state.pos + 1]

\* the number of entries random.sample draws: min(3, len(SUGGESTIONS_BANK))
SampleK == Min(3, Len(SUGGESTIONS_BANK))

\* ----------------------------------------------------------- suggestions

RECURSIVE Join(_, _)
Join(xs, sep) ==
    IF xs = << >> THEN ""
    ELSE IF Len(xs) = 1 THEN xs[1]
    ELSE xs[1] \o sep \o Join(Tail(xs), sep)

BAND_LOW  == "Your resume needs significant tailoring for this role. Review the JD carefully."
BAND_MID  == "Good foundation! Focus on keyword alignment and quantified achievements."
BAND_HIGH == "Strong match! Fine-tune language to mirror the exact phrasing in the JD."

SkillsHint(missing_skills) ==
    "Add these missing skills if you have them: " \o Join(Take(missing_skills, 5), ", ") \o "."
KeywordsHint(missing_keywords) ==
    "Incorporate these job-description keywords naturally: " \o Join(Take(missing_keywords, 5), ", ") \o "."

\* _generate_suggestions up to the band message (all of it but the sampling)
SuggestionsHead(score, missing_skills, missing_keywords) ==
    (IF missing_skills # << >> THEN <<SkillsHint(missing_skills)>> ELSE << >>)
    \o (IF missing_keywords # << >> THEN <<KeywordsHint(missing_keywords)>> ELSE << >>)
    \o (IF score < 50 THEN <<BAND_LOW>>
        ELSE IF score < 70 THEN <<BAND_MID>>
        ELSE <<BAND_HIGH>>)

\* ------------------------------------------------------------ the scores

\* round() where the code has int()
keyword_score_rounded(raw_sim) == Min((FxMul(raw_sim, 400) + 1) \div 2, 100)

\* min(int(raw_sim * 200), 100)
keyword_score_of(raw_sim) == Min(FxMul(raw_sim, 200), 100)

\* round() where the code has int()
skills_score_rounded(skills_data) ==
    LET m == Len(skills_data.matched)
        n == m + Len(skills_data.missing)
    IN  IF n > 0 THEN (200 * m + n) \div (2 * n) ELSE 70

\* no skill required scored as no skill matched
skills_score_no_default(skills_data) ==
    LET m == Len(skills_data.matched)
        n == m + Len(skills_data.missing)
    IN  IF n > 0 THEN DblTruncRatio100(m, n) ELSE 0

\* the ratio without the test of jd_skill_count
skills_score_unguarded(skills_data) ==
    DblTruncRatio100(Len(skills_data.matched),
                     Len(skills_data.matched) + Len(skills_data.missing))

\* the share of the missing skills where the code takes the share of the matched
skills_score_of_missing(skills_data) ==
    LET k == Len(skills_data.missing)
        n == Len(skills_data.matched) + k
    IN  IF n > 0 THEN DblTruncRatio100(k, n) ELSE 70

\* int(len(matched) / jd_skill_count * 100) if jd_skill_count > 0 else 70
skills_score_of(skills_data) ==
    LET jd_skill_count == Len(skills_data.matched) + Len(skills_data.missing)
    IN  IF jd_skill_count > 0
        THEN DblTruncRatio100(Len(skills_data.matched), jd_skill_count)
        ELSE 70

\* keyword_score * 0.60 + skills_score * 0.20 + format_score * 0.20, a double
WeightedSum(keyword_score, skills_score, format_score) ==
    DblAdd(DblAdd(DblMulInt(keyword_score, Dbl060), DblMulInt(skills_score, Dbl020)),
           DblMulInt(format_score, Dbl020))

\* the composite score without the clamp
final_score_unclamped(keyword_score, skills_score, format_score) ==
    DblTrunc(WeightedSum(keyword_score, skills_score, format_score))

\* round() where the code has int()
final_score_rounded(keyword_score, skills_score, format_score) ==
    Max(10, Min(DblRoundInt(WeightedSum(keyword_score, skills_score, format_score)), 100))

\* max(10, min(int(...), 100))
final_score_of(keyword_score, skills_score, format_score) ==
    Max(10, Min(DblTrunc(WeightedSum(keyword_score, skills_score, format_score)), 100))

(* analyze_resume up to the sampling: steps 1 to 6 and the head of            *)
(* _generate_suggestions.  None of it reads or writes anything shared.  A     *)
(* division that raises ends the call: what follows it is not computed.       *)
Analysis(resume_text, job_description) ==
    LET raw_sim       == _similarity(resume_text, job_description)
        keyword_score == IF raw_sim = ZeroDivisionError THEN ZeroDivisionError
                         ELSE keyword_score_of(raw_sim)
        kw_data       == _keyword_overlap(resume_text, job_description)
        skills_data   == _match_skills(resume_text, job_description)
        skills_score  == skills_score_of(skills_data)
        format_score  == _format_score(resume_text)
        raised        == raw_sim = ZeroDivisionError \/ skills_score = ZeroDivisionError
        final_score   == IF raised THEN ZeroDivisionError
                         ELSE final_score_of(keyword_score, skills_score, format_score)
    IN  [raised        |-> raised,
         raw_sim       |-> raw_sim,
         keyword_score |-> keyword_score,
         kw_data       |-> kw_data,
         skills_data   |-> skills_data,
         skills_score  |-> skills_score,
         format_score  |-> format_score,
         final_score   |-> final_score,
         ats_issues    |-> _ats_check(resume_text),
         suggestions   |-> SuggestionsHead(final_score, skills_data.missing, kw_data.missing),
         pool          |-> << >>,
         picked        |-> << >>]

\* the dict analyze_resume returns
Result(l) ==
    [score            |-> l.final_score,
     keyword_score    |-> l.keyword_score,
     skills_score     |-> l.skills_score,
     format_score     |-> l.format_score,
     matched_keywords |-> l.kw_data.matched,
     missing_keywords |-> l.kw_data.missing,
     matched_skills   |-> l.skills_data.matched,
     missing_skills   |-> l.skills_data.missing,
     suggestions      |-> Take(l.suggestions \o l.picked, 8),
     ats_issues       |-> l.ats_issues]

\* the loop of random.sample run to its end from one generator state, undisturbed
RECURSIVE SampleLoop(_, _, _)
SampleLoop(pool, picked, state) ==
    IF Len(picked) = SampleK THEN picked
    ELSE LET i == Len(picked)
             n == Len(SUGGESTIONS_BANK)
             j == getrandbits4(state)
             next == [state EXCEPT !.pos = @ + 1]
         IN  IF j < n - i
             THEN SampleLoop([pool EXCEPT ![j + 1] = pool[n - i]], Append(picked, pool[j + 1]), next)
             ELSE SampleLoop(pool, picked, next)

\* one call of analyze_resume that no other call interleaves with
analyze_resume(resume_text, job_description) ==
    LET l == Analysis(resume_text, job_description)
    IN  Result([l EXCEPT !.picked =
                   SampleLoop(SUGGESTIONS_BANK, << >>, [seed |-> l.final_score, pos |-> 0])])

\* ------------------------------------------------------------- the inputs

MaxResumeWords == 2
MaxJdWords == 2

ResumeWords == <<"Python", "go", "going", "praise", "led">>
JdWords == <<"Software", "Engineer", "Go/Python", "r", "the">>

JANE_RESUME == "Jane Doe Software Engineer resume"

\* the texts of at most n words of the list, separated by single spaces
RECURSIVE TextsOf(_, _)
TextsOf(words, n) ==
    IF n = 0 THEN {""}
    ELSE LET shorter == TextsOf(words, n - 1)
         IN  shorter \cup {IF t = "" THEN words[i] ELSE t \o " " \o words[i] :
                               t \in shorter, i \in DOMAIN words}

Resumes == TextsOf(ResumeWords, MaxResumeWords) \cup {JANE_RESUME}
Jds == TextsOf(JdWords, MaxJdWords)

\* the inputs of the runs of several calls
SeqResumes == {"", JANE_RESUME, "Python go"}
SeqJds == {"Software Engineer", "Go/Python r", "the"}

MaxSeqCalls == 3
NumThreads == 2

\* --------------------------------------------------------------- the state

VARIABLES
    pc,     \* per thread: "idle", "seed", "sample", "return" or "raised"
    args,   \* per thread: <<resume_text, job_description>> of its current or last call
    loc,    \* per thread: the local variables of its call
    rng,    \* the generator of the random module: [seed, pos]
    ret,    \* per thread: << >>, or <<result>> once its last call has returned
    todo,   \* the number of calls that may still start
    log     \* the calls that have returned, in order: [args, result] each

vars == <<pc, args, loc, rng, ret, todo, log>>

NoLocals == Analysis("", "")

InitWith(threads, calls) ==
    /\ pc = [t \in threads |-> "idle"]
    /\ args = [t \in threads |-> <<"", "">>]
    /\ loc = [t \in threads |-> NoLocals]
    /\ rng = [seed |-> 0, pos |-> 0]
    /\ ret = [t \in threads |-> << >>]
    /\ todo = calls
    /\ log = << >>

\* a thread enters analyze_resume and runs it up to random.seed
Analyze(t, resumes, jds) ==
    /\ pc[t] = "idle"
    /\ todo > 0
    /\ \E resume_text \in resumes, job_description \in jds :
          LET l == Analysis(resume_text, job_description) IN
          /\ args' = [args EXCEPT ![t] = <<resume_text, job_description>>]
          /\ loc' = [loc EXCEPT ![t] = l]
          /\ pc' = [pc EXCEPT ![t] = IF l.raised THEN "raised" ELSE "seed"]
    /\ ret' = [ret EXCEPT ![t] = << >>]
    /\ todo' = todo - 1
    /\ UNCHANGED <<rng, log>>

\* the sampling entered without random.seed(score)
SeedSkipped(t) ==
    /\ pc[t] = "seed"
    /\ loc' = [loc EXCEPT ![t].pool = SUGGESTIONS_BANK, ![t].picked = << >>]
    /\ pc' = [pc EXCEPT ![t] = IF SampleK = 0 THEN "return" ELSE "sample"]
    /\ UNCHANGED <<args, rng, ret, todo, log>>

\* random.seed(score), then random.sample copies the population
Seed(t) ==
    /\ pc[t] = "seed"
    /\ rng' = [seed |-> loc[t].final_score, pos |-> 0]
    /\ loc' = [loc EXCEPT ![t].pool = SUGGESTIONS_BANK, ![t].picked = << >>]
    /\ pc' = [pc EXCEPT ![t] = IF SampleK = 0 THEN "return" ELSE "sample"]
    /\ UNCHANGED <<args, ret, todo, log>>

\* one getrandbits call of randbelow(n - i) in the loop of random.sample:
\* a value below n - i selects pool[j] and moves the last live entry into its place
GetRandBits(t) ==
    /\ pc[t] = "sample"
    /\ LET i == Len(loc[t].picked)
           n == Len(SUGGESTIONS_BANK)
           j == getrandbits4(rng)
       IN  /\ rng' = [rng EXCEPT !.pos = @ + 1]
           /\ IF j < n - i
              THEN /\ loc' = [loc EXCEPT ![t].picked = Append(@, loc[t].pool[j + 1]),
                                         ![t].pool = [@ EXCEPT ![j + 1] = loc[t].pool[n - i]]]
                   /\ pc' = [pc EXCEPT ![t] = IF i + 1 = SampleK THEN "return" ELSE "sample"]
              ELSE UNCHANGED <<loc, pc>>
    /\ UNCHANGED <<args, ret, todo, log>>

\* suggestions[:8] and the return of analyze_resume
Return(t) ==
    /\ pc[t] = "return"
    /\ ret' = [ret EXCEPT ![t] = <<Result(loc[t])>>]
    /\ log' = Append(log, [args |-> args[t], result |-> Result(loc[t])])
    /\ pc' = [pc EXCEPT ![t] = "idle"]
    /\ UNCHANGED <<args, loc, rng, todo>>

\* one call of analyze_resume on any pair of the bounded texts
Init == InitWith({1}, 1)
Next ==
    \E t \in {1} :
        \/ Analyze(t, Resumes, Jds)
        \/ Seed(t)
        \/ GetRandBits(t)
        \/ Return(t)
Spec == Init /\ [][Next]_vars

\* one thread, several calls one after the other
InitSeq == InitWith({1}, MaxSeqCalls)
NextSeq ==
    \E t \in {1} :
        \/ Analyze(t, SeqResumes, SeqJds)
        \/ Seed(t)
        \/ GetRandBits(t)
        \/ Return(t)
SpecSeq == InitSeq /\ [][NextSeq]_vars

\* several threads of one process, one call each, interleaved step by step
InitConc == InitWith(1..NumThreads, NumThreads)
NextConc ==
    \E t \in 1..NumThreads :
        \/ Analyze(t, SeqResumes, SeqJds)
        \/ Seed(t)
        \/ GetRandBits(t)
        \/ Return(t)
SpecConc == InitConc /\ [][NextConc]_vars

\* two calls one after the other, for one resume against job descriptions that
\* name some, all or none of its skills
MaxPairJdWords == 2
PairResumes == {"Python go"}
PairJdWords == <<"Go/Python", "Python", "r">>
PairJds == TextsOf(PairJdWords, MaxPairJdWords)

InitPair == InitWith({1}, 2)
NextPair ==
    \E t \in {1} :
        \/ Analyze(t, PairResumes, PairJds)
        \/ Seed(t)
        \/ GetRandBits(t)
        \/ Return(t)
SpecPair == InitPair /\ [][NextPair]_vars

\* ------------------------------------------------- the functions on their own

(* A function of the engine called on its own: the thread's pc becomes the    *)
(* function's name, args its arguments and ret its result.                    *)
Call(t, name, arguments, value) ==
    /\ pc[t] = "idle"
    /\ todo > 0
    /\ pc' = [pc EXCEPT ![t] = name]
    /\ args' = [args EXCEPT ![t] = arguments]
    /\ ret' = [ret EXCEPT ![t] = <<value>>]
    /\ todo' = todo - 1
    /\ UNCHANGED <<loc, rng, log>>

MaxSkillResumeWords == 1
MaxSkillJdWords == 2
SkillResumeWords == <<"linux", "c++11", "going", "Python", "C#">>
SkillJdWords == <<"C++", "c#", "Linux", "Go/Python", "r">>
SkillResumes == TextsOf(SkillResumeWords, MaxSkillResumeWords)
SkillJds == TextsOf(SkillJdWords, MaxSkillJdWords)

MatchSkills(t) ==
    \E resume_text \in SkillResumes, jd_text \in SkillJds :
        Call(t, "_match_skills", <<resume_text, jd_text>>, _match_skills(resume_text, jd_text))

InitSkills == InitWith({1}, 1)
NextSkills == \E t \in {1} : MatchSkills(t)
SpecSkills == InitSkills /\ [][NextSkills]_vars

MaxKeywordWords == 3
MaxOverlapResumeWords == 1
MaxTopN == 3
KeywordWords == <<"data", "Science", "the", "data-driven">>
\* a text of 42 distinct tokens
LONG_TEXT == "spark agile kotlin argo helm tableau grafana hadoop nginx ruby vault mongodb ansible kafka scala bash flask swift istio matlab numpy jira azure pandas lambda jenkins gitlab github figma docker redis django excel consul oracle scrum perl linux python elastic terraform rust"
KeywordTexts == TextsOf(KeywordWords, MaxKeywordWords)
OverlapResumes == TextsOf(KeywordWords, MaxOverlapResumeWords) \cup {LONG_TEXT}
OverlapJds == KeywordTexts \cup {LONG_TEXT}

TopKeywords(t) ==
    \E text \in KeywordTexts \cup {LONG_TEXT}, n \in (0..MaxTopN) \cup {40, 60} :
        Call(t, "_top_keywords", <<text, n>>, _top_keywords(text, n))

KeywordOverlap(t) ==
    \E resume_text \in OverlapResumes, jd_text \in OverlapJds :
        Call(t, "_keyword_overlap", <<resume_text, jd_text>>,
             _keyword_overlap(resume_text, jd_text))

InitKeywords == InitWith({1}, 1)
NextKeywords ==
    \E t \in {1} :
        \/ TopKeywords(t)
        \/ KeywordOverlap(t)
SpecKeywords == InitKeywords /\ [][NextKeywords]_vars

\* _similarity(text_a, text_b) on texts of at most MaxSimWords words, returning
\* what the function held when it returned
MaxSimWords == 2
SimWords == <<"data", "Science", "science,", "Python", "the">>
SimTexts == TextsOf(SimWords, MaxSimWords)

SimilarityResult(text_a, text_b) ==
    LET tok_a   == _tokenize(text_a)
        tok_b   == _tokenize(text_b)
        raw_sim == _similarity(text_a, text_b)
    IN  [tok_a         |-> tok_a,
         tok_b         |-> tok_b,
         locals        |-> IF tok_a = << >> \/ tok_b = << >> THEN << >>
                           ELSE <<SimilarityLocals(tok_a, tok_b)>>,
         raw_sim       |-> raw_sim,
         keyword_score |-> keyword_score_of(raw_sim)]

Similarity(t) ==
    \E text_a \in SimTexts, text_b \in SimTexts :
        Call(t, "_similarity", <<text_a, text_b>>, SimilarityResult(text_a, text_b))

InitSimilarity == InitWith({1}, 1)
NextSimilarity == \E t \in {1} : Similarity(t)
SpecSimilarity == InitSimilarity /\ [][NextSimilarity]_vars

\* _format_score(resume_text) and _ats_check(resume_text) on resumes of at most
\* MaxFormatWords words of FormatWords, followed by a filler word as many times
\* as PadCounts says, so that the word counts stand on both sides of the
\* thresholds 100, 150, 300 and 1200
MaxFormatWords == 1
FormatWords == <<"a@b.co", "555-123-4567", "2021", "led", "Skills", "|a|", "●",
                 "Experience/Education/Skills/Summary/Objective/Projects/Certifications",
                 "a@b.co/555-123-4567/work">>
PadCounts == {0, 99, 100, 149, 299, 1199, 1200}

RECURSIVE Repeat(_, _)
Repeat(s, n) ==
    IF n = 0 THEN ""
    ELSE IF n % 2 = 0 THEN LET half == Repeat(s, n \div 2) IN half \o half
    ELSE s \o Repeat(s, n - 1)

FormatResumes ==
    {head \o Repeat(" x", k) : head \in TextsOf(FormatWords, MaxFormatWords), k \in PadCounts}

FormatScore(t) ==
    \E resume_text \in FormatResumes :
        Call(t, "_format_score", <<resume_text>>, _format_score(resume_text))

AtsCheck(t) ==
    \E resume_text \in FormatResumes :
        Call(t, "_ats_check", <<resume_text>>, _ats_check(resume_text))

InitFormat == InitWith({1}, 1)
NextFormat ==
    \E t \in {1} :
        \/ FormatScore(t)
        \/ AtsCheck(t)
SpecFormat == InitFormat /\ [][NextFormat]_vars

\* _generate_suggestions(score, missing_skills, missing_keywords) for every score
\* analyze_resume can pass and lists of at most MaxMissingSkills and
\* MaxMissingKeywords entries; the sampling runs by the steps of the generator
MaxMissingSkills == 1
MaxMissingKeywords == 1
Scores == 0..100
MissingSkillNames == <<"python", "go">>
MissingKeywordNames == <<"data", "science">>
ListsOf(names, n) == UNION {[1..k -> Range(names)] : k \in 0..n}

\* _generate_suggestions entered, run up to random.seed
Generate(t, scores) ==
    /\ pc[t] = "idle"
    /\ todo > 0
    /\ \E score \in scores,
          missing_skills \in ListsOf(MissingSkillNames, MaxMissingSkills),
          missing_keywords \in ListsOf(MissingKeywordNames, MaxMissingKeywords) :
          /\ args' = [args EXCEPT ![t] = <<score, missing_skills, missing_keywords>>]
          /\ loc' = [loc EXCEPT ![t] =
                        [NoLocals EXCEPT !.final_score = score,
                                         !.skills_data.missing = missing_skills,
                                         !.kw_data.missing = missing_keywords,
                                         !.suggestions = SuggestionsHead(score, missing_skills,
                                                                         missing_keywords)]]
          /\ pc' = [pc EXCEPT ![t] = "seed"]
    /\ ret' = [ret EXCEPT ![t] = << >>]
    /\ todo' = todo - 1
    /\ UNCHANGED <<rng, log>>

InitSuggest == InitWith({1}, 1)
NextSuggest ==
    \E t \in {1} :
        \/ Generate(t, Scores)
        \/ Seed(t)
        \/ GetRandBits(t)
        \/ Return(t)
SpecSuggest == InitSuggest /\ [][NextSuggest]_vars

\* the same in several threads of one process, one call each, interleaved step
\* by step, with scores of the low and of the high band
ConcScores == {10, 74}
InitSuggestConc == InitWith(1..NumThreads, NumThreads)
NextSuggestConc ==
    \E t \in 1..NumThreads :
        \/ Generate(t, ConcScores)
        \/ Seed(t)
        \/ GetRandBits(t)
        \/ Return(t)
SpecSuggestConc == InitSuggestConc /\ [][NextSuggestConc]_vars

\* _format_score and _ats_check on one resume_text, as analyze_resume calls them,
\* for resumes of at most MaxHeuristicWords words
MaxHeuristicWords == 2
HeuristicWords == <<"a@b.co", "A@B.CO", "Jane@Mail.Com", "Skills", "Projects",
                    "Experienced", "experience", "work", "Education", "x">>
HeuristicResumes == TextsOf(HeuristicWords, MaxHeuristicWords)

FormatAndAts(t) ==
    \E resume_text \in HeuristicResumes :
        Call(t, "format_and_ats", <<resume_text>>,
             [parts        |-> FormatScoreParts(resume_text),
              format_score |-> _format_score(resume_text),
              ats_issues   |-> _ats_check(resume_text)])

InitHeuristics == InitWith({1}, 1)
NextHeuristics == \E t \in {1} : FormatAndAts(t)
SpecHeuristics == InitHeuristics /\ [][NextHeuristics]_vars

\* ------------------------------------------------------- the upload handler

\* str.strip(chars): the text without its leading and trailing characters of the class
StripOf(s, class) ==
    LET keep == {i \in 1..Len(s) : Char(s, i) \notin class}
    IN  IF keep = {} THEN ""
        ELSE SubSeq(s, CHOOSE i \in keep : \A j \in keep : i <= j,
                       CHOOSE i \in keep : \A j \in keep : i >= j)

\* str.strip()
Strip(s) == StripOf(s, SpaceSet)

\* the characters of the text that are in the class, in order
RECURSIVE KeepChars(_, _)
KeepChars(s, class) ==
    IF Len(s) = 0 THEN ""
    ELSE IF Len(s) = 1 THEN (IF s \in class THEN s ELSE "")
    ELSE LET h == Len(s) \div 2
         IN  KeepChars(SubSeq(s, 1, h), class) \o KeepChars(SubSeq(s, h + 1, Len(s)), class)

\* the position of the last character c of the text, 0 when there is none
LastIndex(s, c) ==
    LET at == {i \in 1..Len(s) : Char(s, i) = c}
    IN  IF at = {} THEN 0 ELSE CHOOSE i \in at : \A j \in at : i >= j

ALLOWED_EXTENSIONS == {"pdf", "docx", "doc"}
UPLOAD_FOLDER == "/tmp"

\* "." in filename and filename.rsplit(".", 1)[1].lower() in ALLOWED_EXTENSIONS
allowed_file(filename) ==
    LET dot == LastIndex(filename, ".")
    IN  dot # 0 /\ Lower(SubSeq(filename, dot + 1, Len(filename))) \in ALLOWED_EXTENSIONS

\* werkzeug's secure_filename on ASCII names: path separators turned into
\* spaces, the words joined by "_", only letters, digits, "_", "." and "-" kept,
\* leading and trailing "." and "_" dropped
secure_filename(filename) ==
    LET spaced == [i \in 1..Len(filename) |->
                       IF Char(filename, i) = "/" THEN " " ELSE Char(filename, i)]
    IN  StripOf(KeepChars(Join(Split(Join(spaced, "")), "_"), WordSet \cup {".", "-"}), {".", "_"})

\* os.path.splitext(filepath)[1].lower(): from the last dot of the last path
\* component on, unless only dots come before it there
splitext_lower(filepath) ==
    LET base    == SubSeq(filepath, LastIndex(filepath, "/") + 1, Len(filepath))
        dot     == LastIndex(base, ".")
    IN  IF dot = 0 \/ \A i \in 1..(dot - 1) : Char(base, i) = "." THEN ""
        ELSE Lower(SubSeq(base, dot, Len(base)))

\* json.dumps of a list of plain ASCII strings
JsonDumps(xs) == "[" \o Join([i \in DOMAIN xs |-> "\"" \o xs[i] \o "\""], ", ") \o "]"

\* the requests: the field "resume" present or not, its filename, the form's
\* job description, and the name uuid4 gives the saved file
UploadNames == {"", "cv.pdf", "My CV.DOCX", "cv.txt", ".pdf"}
UploadJds == {"", " \n", " Software Engineer ", "Go/Python r"}
Uuids == {"0a", "1b"}

\* what the parsers can return for a file: texts as clean_text leaves them, of
\* 0, 33, 49 and 50 characters
ExtractedTexts ==
    {"", JANE_RESUME, "Pythons" \o Repeat(" x", 21), "Python" \o Repeat(" x", 22)}

FLASH_NO_PART    == "No file part in request."
FLASH_NO_FILE    == "Please select a resume file."
FLASH_NOT_ALLOWED == "Only PDF and DOCX files are supported."
FLASH_NO_JD      == "Please enter a job description."
FLASH_UNREADABLE == "Could not extract readable text. Please check the file."
FLASH_ERROR      == "An error occurred"

Response(endpoint, message) == [redirect |-> endpoint, flash |-> message]
Logged(name, argument, outcome, value) ==
    Append(log, [args |-> <<name, argument>>, result |-> <<outcome, value>>])

\* the request arrives; the four checks before the try block
Request(t) ==
    /\ pc[t] = "idle"
    /\ todo > 0
    /\ \E has_file \in BOOLEAN, filename \in UploadNames, form_jd \in UploadJds, uuid \in Uuids :
          LET job_description == Strip(form_jd)
              rejected == IF ~has_file THEN <<FLASH_NO_PART>>
                          ELSE IF filename = "" THEN <<FLASH_NO_FILE>>
                          ELSE IF ~allowed_file(filename) THEN <<FLASH_NOT_ALLOWED>>
                          ELSE IF job_description = "" THEN <<FLASH_NO_JD>>
                          ELSE << >>
          IN  /\ args' = [args EXCEPT ![t] = <<has_file, filename, form_jd>>]
              /\ loc' = [loc EXCEPT ![t] =
                            [filename        |-> secure_filename(filename),
                             job_description |-> job_description,
                             filepath        |-> UPLOAD_FOLDER \o "/" \o uuid \o "_"
                                                 \o secure_filename(filename),
                             resume_text     |-> "",
                             result          |-> << >>]]
              /\ IF rejected # << >>
                 THEN /\ pc' = [pc EXCEPT ![t] = "done"]
                      /\ ret' = [ret EXCEPT ![t] = <<Response("index", rejected[1])>>]
                 ELSE /\ pc' = [pc EXCEPT ![t] = "save"]
                      /\ ret' = [ret EXCEPT ![t] = << >>]
    /\ todo' = todo - 1
    /\ UNCHANGED <<rng, log>>

\* file.save(filepath): the file is written, or the write raises
Save(t) ==
    /\ pc[t] = "save"
    /\ \E saved \in BOOLEAN :
          /\ log' = Logged("file.save", loc[t].filepath,
                           IF saved THEN "returned" ELSE "raised", "")
          /\ pc' = [pc EXCEPT ![t] = IF saved THEN "extract" ELSE "except"]
    /\ UNCHANGED <<args, loc, rng, ret, todo>>

\* extract_text_from_file(filepath) and the test of its text
Extract(t) ==
    /\ pc[t] = "extract"
    /\ LET ext == splitext_lower(loc[t].filepath) IN
       IF ext \notin {".pdf", ".docx", ".doc"}
       THEN /\ log' = Logged("extract_text_from_file", loc[t].filepath, "raised", "ValueError")
            /\ pc' = [pc EXCEPT ![t] = "except"]
            /\ UNCHANGED loc
       ELSE \/ /\ log' = Logged("extract_text_from_file", loc[t].filepath,
                                 "raised", "RuntimeError")
               /\ pc' = [pc EXCEPT ![t] = "except"]
               /\ UNCHANGED loc
            \/ \E resume_text \in ExtractedTexts :
                  /\ log' = Logged("extract_text_from_file", loc[t].filepath,
                                   "returned", resume_text)
                  /\ loc' = [loc EXCEPT ![t].resume_text = resume_text]
                  /\ pc' = [pc EXCEPT ![t] =
                               IF resume_text = "" \/ Len(Strip(resume_text)) < 50
                               THEN "unreadable" ELSE "analyze"]
    /\ UNCHANGED <<args, rng, ret, todo>>

\* os.remove(filepath) inside try/except: pass, then the return of the handler
OsRemove(t, at, response) ==
    /\ pc[t] = at
    /\ \E removed \in BOOLEAN :
          log' = Logged("os.remove", loc[t].filepath,
                        IF removed THEN "returned" ELSE "raised", "")
    /\ pc' = [pc EXCEPT ![t] = "done"]
    /\ ret' = [ret EXCEPT ![t] = <<response>>]
    /\ UNCHANGED <<args, loc, rng, todo>>

\* the text was not readable: flash, remove, redirect to the index
RemoveUnreadable(t) == OsRemove(t, "unreadable", Response("index", FLASH_UNREADABLE))

\* the generator after the loop of random.sample has run to its end
RECURSIVE SampleEnd(_, _)
SampleEnd(i, state) ==
    IF i = SampleK THEN state
    ELSE LET next == [state EXCEPT !.pos = @ + 1]
         IN  IF getrandbits4(state) < Len(SUGGESTIONS_BANK) - i
             THEN SampleEnd(i + 1, next)
             ELSE SampleEnd(i, next)

\* result = analyze_resume(resume_text, job_description), the only request in flight
AnalyzeUpload(t) ==
    /\ pc[t] = "analyze"
    /\ \E l \in {Analysis(loc[t].resume_text, loc[t].job_description)} :
          IF l.raised
          THEN /\ log' = Logged("analyze_resume", loc[t].resume_text,
                                "raised", "ZeroDivisionError")
               /\ pc' = [pc EXCEPT ![t] = "except"]
               /\ UNCHANGED <<loc, rng>>
          ELSE \E seeded \in {[seed |-> l.final_score, pos |-> 0]} :
               \E result \in {Result([l EXCEPT !.picked =
                                          SampleLoop(SUGGESTIONS_BANK, << >>, seeded)])} :
                  /\ log' = Logged("analyze_resume", loc[t].resume_text, "returned", result)
                  /\ loc' = [loc EXCEPT ![t].result = <<result>>]
                  /\ rng' = SampleEnd(0, seeded)
                  /\ pc' = [pc EXCEPT ![t] = "commit"]
    /\ UNCHANGED <<args, ret, todo>>

\* the ResumeAnalysis row of the result
ResumeAnalysis(l) ==
    LET result == l.result[1]
    IN  [filename         |-> l.filename,
         job_description  |-> l.job_description,
         resume_text      |-> Take(l.resume_text, 5000),
         score            |-> result.score,
         keyword_score    |-> result.keyword_score,
         skills_score     |-> result.skills_score,
         format_score     |-> result.format_score,
         matched_keywords |-> JsonDumps(result.matched_keywords),
         missing_keywords |-> JsonDumps(result.missing_keywords),
         matched_skills   |-> JsonDumps(result.matched_skills),
         missing_skills   |-> JsonDumps(result.missing_skills),
         suggestions      |-> JsonDumps(result.suggestions),
         ats_issues       |-> JsonDumps(result.ats_issues)]

\* db.session.add(analysis); db.session.commit(): the row is stored, or the commit raises
Commit(t) ==
    /\ pc[t] = "commit"
    /\ \E committed \in BOOLEAN :
          /\ log' = Logged("db.session.commit", ResumeAnalysis(loc[t]),
                           IF committed THEN "returned" ELSE "raised", "")
          /\ pc' = [pc EXCEPT ![t] = IF committed THEN "remove" ELSE "except"]
    /\ UNCHANGED <<args, loc, rng, ret, todo>>

\* the row is stored: remove, redirect to the result page
RemoveAnalysed(t) == OsRemove(t, "remove", Response("result", ""))

\* except Exception: log, flash, redirect to the index
Except(t) ==
    /\ pc[t] = "except"
    /\ pc' = [pc EXCEPT ![t] = "done"]
    /\ ret' = [ret EXCEPT ![t] = <<Response("index", FLASH_ERROR)>>]
    /\ UNCHANGED <<args, loc, rng, todo, log>>

InitUpload == InitWith({1}, 1)
NextUpload ==
    \E t \in {1} :
        \/ Request(t)
        \/ Save(t)
        \/ Extract(t)
        \/ RemoveUnreadable(t)
        \/ AnalyzeUpload(t)
        \/ Commit(t)
        \/ RemoveAnalysed(t)
        \/ Except(t)
SpecUpload == InitUpload /\ [][NextUpload]_vars

\* ---------------------------------------------------------- the properties

Threads == DOMAIN ret
Returned(t) == ret[t] # << >>
resume_of(t) == args[t][1]
jd_of(t) == args[t][2]

\* C1: every returned score is an integer in 10..100 and every returned
\* keyword_score, skills_score and format_score is an integer in 0..100.
C1_ScoreRanges ==
    \A t \in Threads :
        Returned(t) =>
            /\ ret[t][1].score \in 10..100
            /\ ret[t][1].keyword_score \in 0..100
            /\ ret[t][1].skills_score \in 0..100
            /\ ret[t][1].format_score \in 0..100

\* a call returned the floor although its weighted sum truncates below it
C1_FloorActed ==
    \E t \in Threads :
        /\ Returned(t)
        /\ ret[t][1].score = 10
        /\ DblTrunc(WeightedSum(ret[t][1].keyword_score, ret[t][1].skills_score,
                                ret[t][1].format_score)) < 10

\* C2: with several calls interleaved in the threads of one process, every call
\* returns exactly what the same call returns when it runs alone.
C2_ResultAsAlone ==
    \A t \in Threads :
        Returned(t) => ret[t][1] = analyze_resume(resume_of(t), jd_of(t))

\* C3: in a run of calls one after the other, any two calls with the same
\* (resume_text, job_description) return identical results, whatever other
\* calls ran between them.
C3_SequentialDeterminism ==
    \A i \in DOMAIN log : \A j \in DOMAIN log :
        log[i].args = log[j].args => log[i].result = log[j].result

\* the same call ran first and third, around a call of another score
C3_RepeatedAroundAnother ==
    /\ Len(log) >= 3
    /\ log[1].args = log[3].args
    /\ log[2].result.score # log[1].result.score

\* C4 as stated: for an empty resume and every job description the call returns
\* keyword_score = 0, format_score = 0 and score = 10.
C4_EmptyResumeScoresTen ==
    \A t \in Threads :
        Returned(t) /\ resume_of(t) = "" =>
            /\ ret[t][1].keyword_score = 0
            /\ ret[t][1].format_score = 0
            /\ ret[t][1].score = 10

\* C4 amended: for an empty resume and every job description the call returns
\* keyword_score = 0 and format_score = 0; score = 10 when the job description
\* names at least one taxonomy skill, and score = 14 when it names none.
C4_EmptyResume ==
    \A t \in Threads :
        Returned(t) /\ resume_of(t) = "" =>
            /\ ret[t][1].keyword_score = 0
            /\ ret[t][1].format_score = 0
            /\ ret[t][1].matched_skills = << >>
            /\ ret[t][1].score = IF ret[t][1].missing_skills = << >> THEN 14 ELSE 10

\* an empty resume scored 14 against a job description without taxonomy skills
C4_EmptyResumeScoredFourteen ==
    \E t \in Threads :
        /\ Returned(t)
        /\ resume_of(t) = ""
        /\ jd_of(t) # ""
        /\ ret[t][1].missing_skills = << >>
        /\ ret[t][1].score = 14

\* C5 as stated: for the resume "Jane Doe Software Engineer resume" and every
\* non-empty job description the call returns score = 10 and the short-resume
\* warning among its ats_issues.
C5_JaneScoresTen ==
    \A t \in Threads :
        Returned(t) /\ resume_of(t) = JANE_RESUME /\ jd_of(t) # "" =>
            /\ ret[t][1].score = 10
            /\ \E i \in DOMAIN ret[t][1].ats_issues : ret[t][1].ats_issues[i] = ATS_SHORT

\* C5 amended: for that resume and every non-empty job description the
\* ats_issues contain the short-resume warning, and score = 10 exactly when the
\* job description names at least one taxonomy skill and keyword_score <= 18.
C5_Jane ==
    \A t \in Threads :
        Returned(t) /\ resume_of(t) = JANE_RESUME /\ jd_of(t) # "" =>
            /\ \E i \in DOMAIN ret[t][1].ats_issues : ret[t][1].ats_issues[i] = ATS_SHORT
            /\ (ret[t][1].score = 10) <=>
                  (ret[t][1].missing_skills # << >> /\ ret[t][1].keyword_score <= 18)

\* that resume scored 10 against a job description that names taxonomy skills
C5_JaneAtFloor ==
    \E t \in Threads :
        /\ Returned(t)
        /\ resume_of(t) = JANE_RESUME
        /\ jd_of(t) # ""
        /\ ret[t][1].missing_skills # << >>
        /\ ret[t][1].score = 10

Clamp(x, lo, hi) == Max(lo, Min(x, hi))

\* C6 as stated: the returned score is the weighted sum of the three sub-scores
\* rounded to the nearest integer and clamped to [10, 100].
C6_ScoreIsRounded ==
    \A t \in Threads :
        Returned(t) =>
            ret[t][1].score =
                Clamp(DblRoundInt(WeightedSum(ret[t][1].keyword_score, ret[t][1].skills_score,
                                              ret[t][1].format_score)), 10, 100)

\* C6 amended: the returned score is the weighted sum truncated to an integer
\* (not rounded) and clamped to [10, 100]: with e = 3 * keyword_score +
\* skills_score + format_score it is e div 5 clamped, or one less than e div 5
\* clamped where e is a multiple of 5 and the sum of doubles falls just below
\* that integer.
C6_ScoreIsTruncated ==
    \A t \in Threads :
        Returned(t) =>
            LET e == 3 * ret[t][1].keyword_score + ret[t][1].skills_score
                         + ret[t][1].format_score
            IN  \/ ret[t][1].score = Clamp(e \div 5, 10, 100)
                \/ e % 5 = 0 /\ ret[t][1].score = Clamp((e \div 5) - 1, 10, 100)

\* a call returned a score above the floor that is one below the rounded sum
C6_TruncatedBelowRounded ==
    \E t \in Threads :
        /\ Returned(t)
        /\ ret[t][1].score > 10
        /\ 5 * ret[t][1].score + 3 <= 3 * ret[t][1].keyword_score + ret[t][1].skills_score
                                          + ret[t][1].format_score

\* the (matched, required) counts whose double quotient times 100 falls below
\* the integer 100 * matched / required
RatioBelowExact == {<<29, 50>>, <<29, 100>>, <<57, 100>>, <<58, 100>>}

\* C7 as stated: with m matched and k missing skills, skills_score is
\* m / (m + k) * 100 rounded to the nearest integer if m + k >= 1, and 70 if
\* m + k = 0.
C7_SkillsIsRounded ==
    \A t \in Threads :
        Returned(t) =>
            LET m == Len(ret[t][1].matched_skills)
                n == m + Len(ret[t][1].missing_skills)
                d == 100 * m - n * ret[t][1].skills_score
            IN  IF n >= 1
                THEN 2 * d <= n /\ -n <= 2 * d
                ELSE ret[t][1].skills_score = 70

\* C7 amended: if m + k >= 1 then skills_score is m / (m + k) * 100 truncated to
\* an integer (not rounded): the integer part of 100 * m / (m + k), and one less
\* for (m, m + k) = (29, 50), (29, 100), (57, 100), (58, 100), where the double
\* product falls just below the integer; if m + k = 0 then skills_score = 70.
C7_SkillsIsTruncated ==
    \A t \in Threads :
        Returned(t) =>
            LET m == Len(ret[t][1].matched_skills)
                n == m + Len(ret[t][1].missing_skills)
                x == IF <<m, n>> \in RatioBelowExact THEN ret[t][1].skills_score + 1
                     ELSE ret[t][1].skills_score
            IN  IF n >= 1
                THEN n * x <= 100 * m /\ 100 * m < n * (x + 1)
                ELSE ret[t][1].skills_score = 70

\* two of three required skills matched and skills_score is 66
C7_TwoOfThree ==
    \E t \in Threads :
        /\ Returned(t)
        /\ Len(ret[t][1].matched_skills) = 2
        /\ Len(ret[t][1].missing_skills) = 1
        /\ ret[t][1].skills_score = 66

\* raw_sim * 200 lies in [k, k + 1) iff raw_sim lies in [k * ONE / 200, (k + 1) * ONE / 200)
PerPoint == ONE \div 200

\* C8 as stated: keyword_score is raw_sim * 200 rounded to the nearest integer
\* and clamped to [0, 100].
C8_KeywordIsRounded ==
    \A t \in Threads :
        Returned(t) =>
            LET raw_sim == loc[t].raw_sim
                k       == ret[t][1].keyword_score
            IN  \/ k = 100 /\ 2 * raw_sim >= 199 * PerPoint
                \/ /\ k < 100
                   /\ (2 * k - 1) * PerPoint <= 2 * raw_sim
                   /\ 2 * raw_sim <= (2 * k + 1) * PerPoint

\* C8 amended: keyword_score is raw_sim * 200 truncated to an integer (not
\* rounded) and clamped to [0, 100].
C8_KeywordIsTruncated ==
    \A t \in Threads :
        Returned(t) =>
            LET raw_sim == loc[t].raw_sim
                k       == ret[t][1].keyword_score
            IN  \/ k = 100 /\ raw_sim >= 100 * PerPoint
                \/ /\ k < 100
                   /\ k * PerPoint <= raw_sim
                   /\ raw_sim < (k + 1) * PerPoint

\* a call returned a keyword_score below 100 whose raw_sim * 200 has a
\* fractional part above one half
C8_TruncatedBelowRounded ==
    \E t \in Threads :
        /\ Returned(t)
        /\ ret[t][1].keyword_score < 100
        /\ 2 * loc[t].raw_sim > (2 * ret[t][1].keyword_score + 1) * PerPoint

AlnumSet == LowerSet \cup UpperSet \cup DigitSet
IsAlnumAt(text, p) == p >= 1 /\ p <= Len(text) /\ Char(text, p) \in AlnumSet
Occurrences(text, lit) == {p \in 1..(Len(text) - Len(lit) + 1) : LiteralAt(text, lit, p)}

\* the alphanumeric skill occurs in the text, and each time with a letter or
\* digit right before it or right after it
OnlyInsideWords(text, skill) ==
    /\ AllIn(skill, 1, Len(skill), AlnumSet)
    /\ Occurrences(text, skill) # {}
    /\ \A p \in Occurrences(text, skill) :
          IsAlnumAt(text, p - 1) \/ IsAlnumAt(text, p + Len(skill))

\* C9: a taxonomy skill the job text requires that occurs in the resume only
\* as a proper part of longer alphanumeric words is not in matched_skills: it
\* is in missing_skills.
C9_NoMatchInsideWords ==
    \A t \in Threads :
        Returned(t) =>
            \A skill \in Range(ret[t][1].matched_skills) \cup Range(ret[t][1].missing_skills) :
                OnlyInsideWords(Lower(resume_of(t)), skill) =>
                    /\ skill \notin Range(ret[t][1].matched_skills)
                    /\ skill \in Range(ret[t][1].missing_skills)

\* "go" is required, the resume has it only inside "going", and it is missing
C9_GoInsideGoing ==
    \E t \in Threads :
        /\ Returned(t)
        /\ Contains(resume_of(t), "going")
        /\ OnlyInsideWords(Lower(resume_of(t)), "go")
        /\ "go" \in Range(ret[t][1].missing_skills)

\* C10: no call raises, and a call one of whose texts tokenizes to nothing
\* returns keyword_score = 0 and no matched keywords.
C10_NeverRaises ==
    \A t \in Threads :
        /\ pc[t] # "raised"
        /\ Returned(t) /\ (_tokenize(resume_of(t)) = << >> \/ _tokenize(jd_of(t)) = << >>) =>
              /\ ret[t][1].keyword_score = 0
              /\ ret[t][1].matched_keywords = << >>

\* a call returned for two non-empty texts of which exactly one tokenizes to nothing
C10_OnlyStopWords ==
    \E t \in Threads :
        /\ Returned(t)
        /\ resume_of(t) # ""
        /\ jd_of(t) # ""
        /\ (_tokenize(resume_of(t)) = << >>) # (_tokenize(jd_of(t)) = << >>)
        /\ ret[t][1].keyword_score = 0


\* C11: for one resume and two job descriptions of which the second has a
\* superset of the first's matched skills and the same missing skills, the
\* skills_score of the second is not lower than that of the first.
C11_SkillsScoreMonotone ==
    \A i \in DOMAIN log : \A j \in DOMAIN log :
        /\ log[i].args[1] = log[j].args[1]
        /\ Range(log[i].result.matched_skills) \subseteq Range(log[j].result.matched_skills)
        /\ Range(log[i].result.missing_skills) = Range(log[j].result.missing_skills)
        => log[i].result.skills_score <= log[j].result.skills_score

\* one job description got the default 70 and another, with more matched and
\* the same (no) missing skills, a higher skills_score; and a pair with
\* missing skills differs too
C11_DefaultThenMore ==
    \E i \in DOMAIN log : \E j \in DOMAIN log :
        /\ log[i].args[1] = log[j].args[1]
        /\ log[i].result.matched_skills = << >>
        /\ log[i].result.missing_skills = << >>
        /\ log[j].result.matched_skills # << >>
        /\ log[j].result.missing_skills = << >>
        /\ log[i].result.skills_score = 70
        /\ log[j].result.skills_score > 70


\* the place of a skill in the taxonomy: its first occurrence in ALL_SKILLS
FirstIndex(skill) == CHOOSE i \in DOMAIN ALL_SKILLS :
                         ALL_SKILLS[i] = skill /\ \A j \in 1..(i - 1) : ALL_SKILLS[j] # skill
NoDuplicates(xs) == \A i \in DOMAIN xs : \A j \in DOMAIN xs : xs[i] = xs[j] => i = j
InTaxonomyOrder(xs) ==
    \A i \in DOMAIN xs : \A j \in DOMAIN xs : i < j => FirstIndex(xs[i]) < FirstIndex(xs[j])

\* C12: the matched and missing lists of _match_skills are disjoint, free of
\* duplicates and in taxonomy order; together they are exactly the taxonomy
\* skills the boundary-anchored search finds in the job text, and a skill is
\* matched iff the same search finds it in the resume text.
C12_MatchedAndMissing ==
    \A t \in Threads :
        pc[t] = "_match_skills" =>
            LET matched  == ret[t][1].matched
                missing  == ret[t][1].missing
                required == {skill \in Range(ALL_SKILLS) : SearchWord(Lower(args[t][2]), skill)}
            IN  /\ Range(matched) \cap Range(missing) = {}
                /\ NoDuplicates(matched) /\ NoDuplicates(missing)
                /\ InTaxonomyOrder(matched) /\ InTaxonomyOrder(missing)
                /\ Range(matched) \cup Range(missing) = required
                /\ \A skill \in required :
                       skill \in Range(matched) <=> SearchWord(Lower(args[t][1]), skill)

\* "linux", listed twice in the taxonomy, is matched, along with other skills
\* matched and missing
C12_LinuxMatchedOnce ==
    \E t \in Threads :
        /\ pc[t] = "_match_skills"
        /\ "linux" \in Range(ret[t][1].matched)
        /\ Cardinality({i \in DOMAIN ALL_SKILLS : ALL_SKILLS[i] = "linux"}) = 2
        /\ ret[t][1].missing # << >>

\* the skill stands in the text as a token of its own, in any letter case,
\* between whitespace or the ends of the text
StandaloneIn(text, skill) ==
    \E p \in 1..(Len(text) - Len(skill) + 1) :
        /\ LiteralAt(Lower(text), skill, p)
        /\ p = 1 \/ Char(text, p - 1) \in SpaceSet
        /\ p + Len(skill) > Len(text) \/ Char(text, p + Len(skill)) \in SpaceSet

\* C20: every taxonomy skill that stands in the job text as a token of its
\* own, in any letter case, is detected as required: it is in the matched or
\* in the missing list; also "c++" and "c#".
C20_StandaloneSkillDetected ==
    \A t \in Threads :
        pc[t] = "_match_skills" =>
            \A skill \in Range(ALL_SKILLS) :
                StandaloneIn(args[t][2], skill) =>
                    skill \in Range(ret[t][1].matched) \cup Range(ret[t][1].missing)


IsSortedAscending(xs) == \A i \in 1..(Len(xs) - 1) : StrLess(xs[i], xs[i + 1])
\* xs lists the 20 smallest elements of S when S has more than 20
SmallestTwenty(xs, S) ==
    Cardinality(S) > 20 =>
        /\ Len(xs) = 20
        /\ \A x \in S \ Range(xs) : \A y \in Range(xs) : StrLess(y, x)

\* C13: matched_keywords and missing_keywords are sorted ascending, of at most
\* 20 entries and disjoint; the matched are in the top 40 keywords of the job
\* and the top 60 of the resume, the missing in the former and not in the
\* latter; a set of more than 20 is cut to its 20 smallest elements.
C13_KeywordOverlap ==
    \A t \in Threads :
        pc[t] = "_keyword_overlap" =>
            LET matched    == ret[t][1].matched
                missing    == ret[t][1].missing
                resume_kws == Range(_top_keywords(args[t][1], 60))
                jd_kws     == Range(_top_keywords(args[t][2], 40))
            IN  /\ IsSortedAscending(matched) /\ IsSortedAscending(missing)
                /\ Len(matched) <= 20 /\ Len(missing) <= 20
                /\ Range(matched) \cap Range(missing) = {}
                /\ Range(matched) \subseteq jd_kws \cap resume_kws
                /\ Range(missing) \subseteq jd_kws \ resume_kws
                /\ SmallestTwenty(matched, jd_kws \cap resume_kws)
                /\ SmallestTwenty(missing, jd_kws \ resume_kws)

\* a job text of more than 40 tokens against a resume without any of them:
\* 20 missing keywords are listed
C13_MissingCapped ==
    \E t \in Threads :
        /\ pc[t] = "_keyword_overlap"
        /\ Cardinality(Range(_tokenize(args[t][2]))) > 40
        /\ ret[t][1].matched = << >>
        /\ Len(ret[t][1].missing) = 20

\* the score of a token of the text, and the place of its first occurrence
TokenScore(token, tokens) == ScoreOf(<<Count(token, tokens), Len(tokens)>>)
FirstPos(token, tokens) == CHOOSE i \in DOMAIN tokens :
                               tokens[i] = token /\ \A j \in 1..(i - 1) : tokens[j] # token

\* C14: _top_keywords(text, n), n >= 0, returns min(n, number of distinct
\* tokens) pairwise distinct tokens of the text by non-increasing score, equal
\* scores in the order of first occurrence, and leaves out no token of a
\* strictly higher score than one it returns.
C14_TopKeywords ==
    \A t \in Threads :
        pc[t] = "_top_keywords" =>
            LET out    == ret[t][1]
                tokens == _tokenize(args[t][1])
                n      == args[t][2]
            IN  /\ NoDuplicates(out)
                /\ Range(out) \subseteq Range(tokens)
                /\ Len(out) = Min(n, Cardinality(Range(tokens)))
                /\ \A i \in DOMAIN out : \A j \in DOMAIN out :
                       i < j =>
                           \/ TokenScore(out[i], tokens) > TokenScore(out[j], tokens)
                           \/ /\ TokenScore(out[i], tokens) = TokenScore(out[j], tokens)
                              /\ FirstPos(out[i], tokens) < FirstPos(out[j], tokens)
                /\ \A x \in Range(tokens) \ Range(out) : \A y \in Range(out) :
                       TokenScore(x, tokens) <= TokenScore(y, tokens)

\* fewer tokens were returned than the text has, the first of a higher score
\* than the last, and a token left out ties with the last
C14_CutAmongEquals ==
    \E t \in Threads :
        /\ pc[t] = "_top_keywords"
        /\ LET out    == ret[t][1]
               tokens == _tokenize(args[t][1])
           IN  /\ Len(out) >= 2
               /\ TokenScore(out[1], tokens) > TokenScore(out[Len(out)], tokens)
               /\ \E x \in Range(tokens) \ Range(out) :
                      TokenScore(x, tokens) = TokenScore(out[Len(out)], tokens)


\* the locals of a call of _similarity that got past its early return
PastEarlyReturn(t) == pc[t] = "_similarity" /\ ret[t][1].locals # << >>
LocalsOf(t) == ret[t][1].locals[1]

\* vocab is the distinct tokens of both texts, ordered by where each comes
\* first in tok_a followed by tok_b
IsFirstSeenUnion(vocab, tok_a, tok_b) ==
    /\ NoDuplicates(vocab)
    /\ Range(vocab) = Range(tok_a) \cup Range(tok_b)
    /\ \A i \in DOMAIN vocab : \A j \in DOMAIN vocab :
           i < j => FirstPos(vocab[i], tok_a \o tok_b) < FirstPos(vocab[j], tok_a \o tok_b)

\* C15 as the specification states it: for two non-empty token sequences the
\* vocabulary is the duplicate-free union in first-seen order, every term's
\* df is 1 or 2, and every idf lies between ln(1.5) + 1 and ln(3) + 1.
C15_IdfInClaimedInterval ==
    \A t \in Threads :
        PastEarlyReturn(t) =>
            LET l == LocalsOf(t)
            IN  /\ IsFirstSeenUnion(l.vocab, ret[t][1].tok_a, ret[t][1].tok_b)
                /\ \A term \in Range(l.vocab) :
                       /\ l.df[term] \in {1, 2}
                       /\ l.idf_map[term] >= LnRatio(3, 2) + ONE
                       /\ l.idf_map[term] <= LnRatio(3, 1) + ONE

\* C15, amended: for two non-empty token sequences the vocabulary is the
\* duplicate-free union in first-seen order, every term's df is 1 or 2, and its
\* idf is ln(3 / (1 + df)) + 1: ln(1.5) + 1 for a term of one text, exactly 1
\* for a term of both, so every idf lies between 1 and ln(1.5) + 1.
C15_IdfByDocFreq ==
    \A t \in Threads :
        PastEarlyReturn(t) =>
            LET l     == LocalsOf(t)
                tok_a == ret[t][1].tok_a
                tok_b == ret[t][1].tok_b
            IN  /\ IsFirstSeenUnion(l.vocab, tok_a, tok_b)
                /\ DOMAIN l.idf_map = Range(l.vocab)
                /\ \A term \in Range(l.vocab) :
                       LET both == term \in Range(tok_a) /\ term \in Range(tok_b)
                       IN  /\ l.df[term] = IF both THEN 2 ELSE 1
                           /\ l.idf_map[term] = IF both THEN ONE ELSE LnInt[3] - LnInt[2] + ONE
                           /\ l.idf_map[term] >= ONE
                           /\ l.idf_map[term] <= LnInt[3] - LnInt[2] + ONE

\* a vocabulary with a term of both texts after a term of the first only, and a
\* term of the second only
C15_SharedAndOwnTerms ==
    \E t \in Threads :
        /\ PastEarlyReturn(t)
        /\ LET l == LocalsOf(t)
           IN  /\ Len(l.vocab) = 3
               /\ l.df[l.vocab[1]] = 1
               /\ l.df[l.vocab[2]] = 2
               /\ l.df[l.vocab[3]] = 1
               /\ l.idf_map[l.vocab[2]] = ONE

\* how far a similarity may lie from 1 by rounding
SimTolerance == ONE \div 1000000

\* C19: texts whose non-empty token sets are disjoint have similarity exactly 0
\* and keyword_score 0; texts whose non-empty token sequences are identical have
\* similarity 1, up to rounding, and keyword_score 100.
C19_DisjointAndIdentical ==
    \A t \in Threads :
        pc[t] = "_similarity" =>
            LET r == ret[t][1]
            IN  /\ (/\ r.tok_a # << >>
                    /\ r.tok_b # << >>
                    /\ Range(r.tok_a) \cap Range(r.tok_b) = {})
                       => r.raw_sim = 0 /\ r.keyword_score = 0
                /\ (r.tok_a # << >> /\ r.tok_a = r.tok_b)
                       => /\ r.raw_sim >= ONE - SimTolerance
                          /\ r.raw_sim <= ONE + SimTolerance
                          /\ r.keyword_score = 100

\* both cases came up: two different texts of the same two tokens, and (in
\* another call) two texts without a common token
C19_TwoIdenticalTokens ==
    \E t \in Threads :
        /\ pc[t] = "_similarity"
        /\ args[t][1] # args[t][2]
        /\ Len(ret[t][1].tok_a) = 2
        /\ ret[t][1].tok_a[1] # ret[t][1].tok_a[2]
        /\ ret[t][1].tok_a = ret[t][1].tok_b
        /\ ret[t][1].keyword_score = 100


\* the number of whitespace-separated words of a text: the places where a
\* character that is no whitespace follows the start or a whitespace
WordCount(text) ==
    Cardinality({p \in 1..Len(text) :
                    /\ Char(text, p) \notin SpaceSet
                    /\ (p = 1 \/ Char(text, p - 1) \in SpaceSet)})

HeadingsPresent(text) == {i \in DOMAIN HEADINGS : Contains(Lower(text), HEADINGS[i])}

\* C16: _format_score returns min(100, L + E + P + H + Y + V) with L = 25 for
\* 300 to 1200 words, 12 for more than 100 words outside that band, 0 for at
\* most 100 words; E = 15 iff an email is present, P = 10 iff a phone number,
\* H = min(5 * headings present, 30), Y = 10 iff a year, V = 10 iff a verb.
C16_FormatRubric ==
    \A t \in Threads :
        pc[t] = "_format_score" =>
            LET text == args[t][1]
                w    == WordCount(text)
                L    == CASE 300 <= w /\ w <= 1200 -> 25
                          [] w > 100 /\ (w < 300 \/ w > 1200) -> 12
                          [] w <= 100 -> 0
                E    == IF SearchEmail(Lower(text)) THEN 15 ELSE 0
                P    == IF SearchPhone(text, 7) THEN 10 ELSE 0
                H    == Min(5 * Cardinality(HeadingsPresent(text)), 30)
                Y    == IF SearchYear(text) THEN 10 ELSE 0
                V    == IF \E i \in DOMAIN VERBS : Contains(Lower(text), VERBS[i])
                        THEN 10 ELSE 0
            IN  ret[t][1] = Min(100, L + E + P + H + Y + V)

\* a resume of exactly 1200 words with seven headings: the upper end of the
\* band and the cap of the headings, 25 + 30
C16_BandEndAndHeadingCap ==
    \E t \in Threads :
        /\ pc[t] = "_format_score"
        /\ WordCount(args[t][1]) = 1200
        /\ Cardinality(HeadingsPresent(args[t][1])) = 7
        /\ ret[t][1] = 55

\* the six warnings in their fixed order
ATS_ORDER == <<ATS_TABLE, ATS_BULLETS, ATS_EMAIL, ATS_PHONE, ATS_SHORT, ATS_SECTIONS>>

\* the condition of each warning, on its own
AtsCondition(issue, text) ==
    CASE issue = ATS_TABLE    -> SearchTable(text)
      [] issue = ATS_BULLETS  -> SearchGlyph(text)
      [] issue = ATS_EMAIL    -> ~SearchEmail(text)
      [] issue = ATS_PHONE    -> ~SearchPhone(text, 7)
      [] issue = ATS_SHORT    -> WordCount(text) < 150
      [] issue = ATS_SECTIONS -> ~\E i \in DOMAIN SECTION_WORDS :
                                     SearchWord(Lower(text), SECTION_WORDS[i])

\* C17: _ats_check returns the six warnings in their fixed order, each at most
\* once and exactly when its own condition holds, the one of the short resume
\* exactly below 150 words, and the empty list when no condition holds.
C17_WarningsInOrder ==
    \A t \in Threads :
        pc[t] = "_ats_check" =>
            LET out  == ret[t][1]
                text == args[t][1]
                Holds(issue) == AtsCondition(issue, text)
            IN  /\ out = SelectSeq(ATS_ORDER, Holds)
                /\ NoDuplicates(out)
                /\ (ATS_SHORT \in Range(out)) <=> WordCount(text) < 150
                /\ (\A i \in DOMAIN ATS_ORDER : ~Holds(ATS_ORDER[i])) => out = << >>

\* a resume of exactly 150 words that draws no warning
C17_NoWarningAt150 ==
    \E t \in Threads :
        /\ pc[t] = "_ats_check"
        /\ WordCount(args[t][1]) = 150
        /\ ret[t][1] = << >>


StartsWith(s, prefix) == Len(s) >= Len(prefix) /\ SubSeq(s, 1, Len(prefix)) = prefix

\* C18: _generate_suggestions returns, in this order, the hint of the missing
\* skills iff there are any, the hint of the missing keywords iff there are
\* any, one band message (low below 50, mid from 50 to 69, high from 70), then
\* three pairwise distinct entries of the advice bank that the score alone
\* determines (those a generator freshly seeded with the score yields); at most
\* 8 entries in all.
C18_SuggestionsInOrder ==
    \A t \in Threads :
        (Returned(t) /\ Len(args[t]) = 3) =>
            LET out   == ret[t][1].suggestions
                score == args[t][1]
                hs    == IF args[t][2] # << >> THEN 1 ELSE 0
                hk    == IF args[t][3] # << >> THEN 1 ELSE 0
                band  == hs + hk + 1
                drawn == SubSeq(out, band + 1, Len(out))
            IN  /\ Len(out) = band + 3
                /\ Len(out) <= 8
                /\ hs = 1 => StartsWith(out[1], "Add these missing skills if you have them: ")
                /\ hk = 1 => StartsWith(out[hs + 1],
                                        "Incorporate these job-description keywords naturally: ")
                /\ score < 50 => out[band] = BAND_LOW
                /\ (50 <= score /\ score <= 69) => out[band] = BAND_MID
                /\ score >= 70 => out[band] = BAND_HIGH
                /\ NoDuplicates(drawn)
                /\ Range(drawn) \subseteq Range(SUGGESTIONS_BANK)
                /\ drawn = SampleLoop(SUGGESTIONS_BANK, << >>, [seed |-> score, pos |-> 0])


\* C21: _format_score awards the 15 points of the email exactly when
\* _ats_check does not warn that no email address was detected, whatever the
\* case of the letters of the address.
C21_EmailConsistent ==
    \A t \in Threads :
        pc[t] = "format_and_ats" =>
            (ret[t][1].parts.email = 15 <=> ATS_EMAIL \notin Range(ret[t][1].ats_issues))

\* C22: when _format_score counts one of the headings "experience", "skills"
\* or "projects", _ats_check does not warn that no key section was detected.
C22_SectionsConsistent ==
    \A t \in Threads :
        pc[t] = "format_and_ats" =>
            (ret[t][1].parts.found \cap {"experience", "skills", "projects"} # {}
                => ATS_SECTIONS \notin Range(ret[t][1].ats_issues))


IsCall(entry, name, outcome) == entry.args[1] = name /\ entry.result[1] = outcome

\* once the handler has returned, every file that was saved has had its removal
\* attempted afterwards
C23_RemovalAttempted ==
    \A t \in Threads :
        pc[t] = "done" =>
            \A i \in DOMAIN log :
                IsCall(log[i], "file.save", "returned") =>
                    \E j \in (i + 1)..Len(log) :
                        /\ log[j].args[1] = "os.remove"
                        /\ log[j].args[2] = log[i].args[2]

\* a row is committed only after the extraction returned a text of at least 50
\* characters between its surrounding blanks and analyze_resume returned
C23_CommitAfterAnalysis ==
    \A k \in DOMAIN log :
        IsCall(log[k], "db.session.commit", "returned") =>
            \E i \in 1..(k - 1) : \E j \in (i + 1)..(k - 1) :
                /\ IsCall(log[i], "extract_text_from_file", "returned")
                /\ Len(Strip(log[i].result[2])) >= 50
                /\ IsCall(log[j], "analyze_resume", "returned")

\* C23: on every path of the upload handler on which the resume was saved, the
\* removal of the saved file is attempted before the handler returns, the paths
\* through an exception included; and an analysis row is committed only after
\* the extraction returned at least 50 characters and analyze_resume returned.
C23_CleanupAndCommit == C23_RemovalAttempted /\ C23_CommitAfterAnalysis

====
